---- MODULE Spec2Model ----
(***************************************************************************)
(* Statistical slot machines: the bandit strategies (UCB1, explore-then-   *)
(* commit A/B test), the strategy factory, the MultiStrategyManager        *)
(* coordinator with its asynchronous initialize, the pullLever round and   *)
(* the payout / regret accounting of the two charts.                       *)
(*                                                                         *)
(* Numbers: rewards are small integers (a continuous sampler is            *)
(* represented by a few of the values it can return); a bernoulli          *)
(* parameter p is kept in tenths (PScale); expected values are kept        *)
(* multiplied by EVScale; the UCB index is kept in hundredths.             *)
(***************************************************************************)
EXTENDS Integers, Sequences, FiniteSets, TLC

VARIABLES
    \* ---- one strategy instance driven directly (strategy-level runs) ----
    strat,          \* the instance under test
    lastCall,       \* "init" | "select" | "update" | "reset"
    lastSel,        \* arm returned by the last selectMachine, NoArm before
    calls,          \* number of calls made so far
    alt,            \* the calls since initialize/reset alternate select, update(selected arm)
    ghost,          \* per arm [cnt, sum] of the rewards delivered while exploring
    updates,        \* updates since initialize/reset
    \* ---- the application ----
    currentMachineConfigs,  \* slotMachine.js registry
    chartConfigs,           \* chart.js / regretChart.js machineConfigs
    totalPulls,             \* slotMachine.js totalPulls
    machineData,            \* slotMachine.js per-arm user statistics
    mgr,                    \* the MultiStrategyManager
    tasks,                  \* initialize() invocations, by call number
    nCalls,                 \* number of initialize() invocations so far
    chart,                  \* chart.js accumulators
    regret,                 \* regretChart.js accumulators
    round,                  \* outcome of the last round
    origin,                 \* call number that built each active strategy
    roundsSinceConfig,      \* rounds completed since the last initialize() began
    pullsMade,              \* user pulls since the page was loaded
    hardModeEnabled,        \* slotMachine.js hardModeEnabled
    forced,                 \* forcePermutation() calls since the page was loaded
    permCount,              \* permutations completed since the page was loaded
    owed,                   \* hook-bearing strategies active at a permutation, no round since
    shuffles                \* shuffles made by the permuteAndUpdateMachines call in progress

stratVars == <<strat, lastCall, lastSel, calls, alt, ghost, updates>>
appVars == <<currentMachineConfigs, chartConfigs, totalPulls, machineData, mgr,
             tasks, nCalls, origin, chart, regret, round, roundsSinceConfig,
             pullsMade, hardModeEnabled, forced, permCount, owed, shuffles>>
vars == <<strat, lastCall, lastSel, calls, alt, ghost, updates,
          currentMachineConfigs, chartConfigs, totalPulls, machineData, mgr,
          tasks, nCalls, origin, chart, regret, round, roundsSinceConfig,
          pullsMade, hardModeEnabled, forced, permCount, owed, shuffles>>

----------------------------------------------------------------------------
\* Bounds of the model
MaxStratCalls == 9      \* calls made on the directly driven instance
MaxEvents == 4          \* user events (generate, apply, pull) in an application run
MaxHardEvents == 3      \* user events in an application run with permutations
MaxFormEvents == 3      \* user events in an application run with any form input
MaxIndexCalls == 7      \* calls made on a directly driven UCB1 / NS-UCB instance
MaxWeightCalls == 4     \* calls made on a directly driven EXP3 / EXP3-R instance
MaxSamples == 2         \* largest samplesPerMachine of a directly driven A/B test

\* Representation constants
NoArm == 0 - 1          \* null / undefined arm id
INF == 1000000          \* Infinity of the UCB index (hundredths)
PScale == 10            \* a bernoulli p is stored as p * PScale
EVScale == 20           \* expected values are stored multiplied by EVScale

Max(a, b) == IF a > b THEN a ELSE b
Min(a, b) == IF a < b THEN a ELSE b
CeilDiv(a, b) == (a + b - 1) \div b
MaxOf(S) == CHOOSE x \in S : \A y \in S : y <= x

----------------------------------------------------------------------------
\* Arm configurations: {id, distribution, parameters}
Cfg(i, d, p) == [id |-> i, distribution |-> d, parameters |-> p]

\* The registries entered in the configuration form (ids are 0..k-1 in order)
Registries ==
    { << Cfg(0, "uniform", <<0, 2>>), Cfg(1, "bernoulli", <<8>>) >>,
      << Cfg(0, "bernoulli", <<2>>), Cfg(1, "bernoulli", <<5>>),
         Cfg(2, "bernoulli", <<8>>) >> }

\* Rewards a strategy can be handed in a directly driven run
Rewards == {0, 1}

----------------------------------------------------------------------------
\* Strategy state shared by UCB and the A/B test: machineEstimates.
\* The mean field of the source is totalPayout / pulls (0 while pulls = 0);
\* it is kept as that fraction and compared by cross-multiplication.
NewEstimates(machineConfigs) ==
    [i \in 1..Len(machineConfigs) |->
        [id |-> machineConfigs[i].id, pulls |-> 0, totalPayout |-> 0]]

\* machineEstimates.find(m => m.id === machineId): index of the entry, 0 if none
FindMachine(est, machineId) ==
    IF \E i \in 1..Len(est) : est[i].id = machineId
    THEN CHOOSE i \in 1..Len(est) :
            /\ est[i].id = machineId
            /\ \A j \in 1..(i - 1) : est[j].id # machineId
    ELSE 0

\* a.mean > b.mean
MeanGT(a, b) ==
    LET an == IF a.pulls = 0 THEN 0 ELSE a.totalPayout
        ad == IF a.pulls = 0 THEN 1 ELSE a.pulls
        bn == IF b.pulls = 0 THEN 0 ELSE b.totalPayout
        bd == IF b.pulls = 0 THEN 1 ELSE b.pulls
    IN an * bd > bn * ad

\* machine.pulls++; machine.totalPayout += payout; machine.mean = ...
BumpEstimate(m, payout) ==
    [m EXCEPT !.pulls = @ + 1, !.totalPayout = @ + payout]

----------------------------------------------------------------------------
\* UCB1

\* 1000 * ln(n), n = 1..16
LnMilli == << 0, 693, 1099, 1386, 1609, 1792, 1946, 2079,
              2197, 2303, 2398, 2485, 2565, 2639, 2708, 2773 >>

ISqrt(n) == CHOOSE r \in 0..300 : r * r <= n /\ (r + 1) * (r + 1) > n

\* mutant of UCBIndex: an unexplored arm is given index 0
UCBIndex_unexploredZero(m, total) ==
    IF m.pulls > 0
    THEN ((m.totalPayout * 100) \div m.pulls)
         + ISqrt((2 * LnMilli[total] * 10) \div m.pulls)
    ELSE 0

\* mutant of UCBIndex: the index of an explored arm is its exploration term
UCBIndex_explorationOnly(m, total) ==
    IF m.pulls > 0
    THEN ISqrt((2 * LnMilli[total] * 10) \div m.pulls)
    ELSE INF

\* mean + sqrt(2 * ln(totalPulls) / pulls), in hundredths; Infinity if unexplored
UCBIndex(m, total) ==
    IF m.pulls > 0
    THEN ((m.totalPayout * 100) \div m.pulls)
         + ISqrt((2 * LnMilli[total] * 10) \div m.pulls)
    ELSE INF

UCBInitialize(machineConfigs) ==
    [kind |-> "ucb", totalPulls |-> 0,
     machineEstimates |-> NewEstimates(machineConfigs)]

\* the forEach of selectMachine from entry i on, with the running best
RECURSIVE UCBScan(_, _, _, _)
UCBScan(s, i, bestId, bestUCB) ==
    IF i > Len(s.machineEstimates) THEN bestId
    ELSE LET u == UCBIndex(s.machineEstimates[i], s.totalPulls)
         IN IF u > bestUCB
            THEN UCBScan(s, i + 1, s.machineEstimates[i].id, u)
            ELSE UCBScan(s, i + 1, bestId, bestUCB)

\* selectMachine: the state after the call and the arm returned.  The ucb
\* field it rewrites is a cache that every reader recomputes first; it is
\* not part of the state kept here.
UCBSelectMachine(s) == [s |-> s, arm |-> UCBScan(s, 1, 0, 0 - INF)]

UCBUpdate(s, machineId, payout) ==
    LET t == [s EXCEPT !.totalPulls = @ + 1]
        i == FindMachine(s.machineEstimates, machineId)
    IN IF i = 0 THEN t
       ELSE [t EXCEPT !.machineEstimates[i] = BumpEstimate(@, payout)]

UCBReset(s) ==
    [s EXCEPT !.totalPulls = 0,
              !.machineEstimates =
                  [i \in 1..Len(s.machineEstimates) |->
                      [s.machineEstimates[i] EXCEPT !.pulls = 0, !.totalPayout = 0]]]

----------------------------------------------------------------------------
\* Explore-then-commit (ABTestStrategy)

\* options.samplesPerMachine || max(10, min(30, ceil(100 / k))); 0 = not given
ABTestSamples(k, samplesPerMachine) ==
    IF samplesPerMachine # 0 THEN samplesPerMachine
    ELSE Max(10, Min(30, CeilDiv(100, k)))

ABTestInitialize(machineConfigs, samplesPerMachine) ==
    LET n == ABTestSamples(Len(machineConfigs), samplesPerMachine)
    IN [kind |-> "abtest", totalPulls |-> 0,
        explorationCompleted |-> FALSE, bestMachineId |-> NoArm,
        samplesPerMachine |-> n,
        explorationPhaseLength |-> Len(machineConfigs) * n,
        machineEstimates |-> NewEstimates(machineConfigs),
        currentExplorationIndex |-> 0]

\* mutant of ABTestBestScan: >= in place of >, the last arm wins a tie
RECURSIVE ABTestBestScan_lastOnTies(_, _, _)
ABTestBestScan_lastOnTies(est, i, best) ==
    IF i > Len(est) THEN best
    ELSE IF ~MeanGT(est[best], est[i])
         THEN ABTestBestScan_lastOnTies(est, i + 1, i)
         ELSE ABTestBestScan_lastOnTies(est, i + 1, best)

\* the for-of of _determineBestMachine from entry i on, best = index of bestMachine
RECURSIVE ABTestBestScan(_, _, _)
ABTestBestScan(est, i, best) ==
    IF i > Len(est) THEN best
    ELSE IF MeanGT(est[i], est[best])
         THEN ABTestBestScan(est, i + 1, i)
         ELSE ABTestBestScan(est, i + 1, best)

ABTestDetermineBestMachine(s) ==
    [s EXCEPT !.bestMachineId =
        s.machineEstimates[ABTestBestScan(s.machineEstimates, 1, 1)].id]

ABTestSelectMachine(s) ==
    IF s.totalPulls < s.explorationPhaseLength
    THEN [s |-> [s EXCEPT !.currentExplorationIndex = @ + 1],
          arm |-> s.machineEstimates[
                      (s.currentExplorationIndex % Len(s.machineEstimates)) + 1].id]
    ELSE LET t == IF ~s.explorationCompleted
                  THEN [ABTestDetermineBestMachine(s) EXCEPT
                            !.explorationCompleted = TRUE]
                  ELSE s
         IN [s |-> t, arm |-> t.bestMachineId]

ABTestUpdate(s, machineId, payout) ==
    LET t == [s EXCEPT !.totalPulls = @ + 1]
        i == FindMachine(s.machineEstimates, machineId)
    IN IF i = 0 THEN t
       ELSE LET u == [t EXCEPT !.machineEstimates[i] = BumpEstimate(@, payout)]
            IN IF u.totalPulls = u.explorationPhaseLength /\ ~u.explorationCompleted
               THEN [ABTestDetermineBestMachine(u) EXCEPT
                         !.explorationCompleted = TRUE]
               ELSE u

\* mutant of ABTestReset: the exploration index is kept
ABTestReset_keepsExplorationIndex(s) ==
    [s EXCEPT !.totalPulls = 0, !.explorationCompleted = FALSE,
              !.bestMachineId = NoArm,
              !.machineEstimates =
                  [i \in 1..Len(s.machineEstimates) |->
                      [s.machineEstimates[i] EXCEPT !.pulls = 0, !.totalPayout = 0]]]

ABTestReset(s) ==
    [s EXCEPT !.totalPulls = 0, !.explorationCompleted = FALSE,
              !.bestMachineId = NoArm, !.currentExplorationIndex = 0,
              !.machineEstimates =
                  [i \in 1..Len(s.machineEstimates) |->
                      [s.machineEstimates[i] EXCEPT !.pulls = 0, !.totalPayout = 0]]]

----------------------------------------------------------------------------
\* Non-stationary UCB (NonStationaryUCBStrategy)

\* recentPayouts.reduce((sum, val) => sum + val, 0)
RECURSIVE SumSeq(_)
SumSeq(q) == IF q = << >> THEN 0 ELSE Head(q) + SumSeq(Tail(q))

\* options.windowSize || 20 and options.changeDetectionThreshold || 50;
\* 0 = not given.  sumDeviations is kept in hundredths.
NSUCBInitialize(machineConfigs, options) ==
    [kind |-> "ns-ucb", totalPulls |-> 0,
     windowSize |-> IF options.windowSize # 0 THEN options.windowSize ELSE 20,
     changeDetectionThreshold |->
         IF options.changeDetectionThreshold # 0
         THEN options.changeDetectionThreshold ELSE 50,
     machineEstimates |->
         [i \in 1..Len(machineConfigs) |->
             [id |-> machineConfigs[i].id, pulls |-> 0, totalPayout |-> 0,
              recentPayouts |-> << >>, sumDeviations |-> 0,
              minSumDeviations |-> 0, lastChangePoint |-> 0,
              changeDetected |-> FALSE]]]

\* recentPayouts.slice(Math.max(0, length - (pulls - lastChangePoint)))
NSUCBAfterChange(m) ==
    LET from == Max(0, Len(m.recentPayouts) - (m.pulls - m.lastChangePoint))
    IN SubSeq(m.recentPayouts, from + 1, Len(m.recentPayouts))

\* effectiveMean of an explored arm, in hundredths
NSUCBEffectiveMean(m) ==
    LET window == IF m.changeDetected THEN NSUCBAfterChange(m)
                  ELSE m.recentPayouts
    IN IF window # << >>
       THEN (SumSeq(window) * 100) \div Len(window)
       ELSE (m.totalPayout * 100) \div m.pulls

\* mutant of NSUCBIndex: the exploration coefficient stays 2 after a change
NSUCBIndex_coefficientTwo(m, total) ==
    LET effectivePulls == IF m.changeDetected
                          THEN Max(1, m.pulls - m.lastChangePoint)
                          ELSE m.pulls
    IN NSUCBEffectiveMean(m)
       + ISqrt((2 * LnMilli[total] * 10) \div effectivePulls)

\* machine.ucb of an explored arm, in hundredths
NSUCBIndex(m, total) ==
    LET effectivePulls == IF m.changeDetected
                          THEN Max(1, m.pulls - m.lastChangePoint)
                          ELSE m.pulls
        explorationCoef == IF m.changeDetected THEN 3 ELSE 2
    IN NSUCBEffectiveMean(m)
       + ISqrt((explorationCoef * LnMilli[total] * 10) \div effectivePulls)

\* the forEach of selectMachine from entry i on, with the running best
RECURSIVE NSUCBScan(_, _, _, _)
NSUCBScan(s, i, bestId, bestUCB) ==
    IF i > Len(s.machineEstimates) THEN bestId
    ELSE LET m == s.machineEstimates[i]
         IN IF m.pulls = 0
            THEN IF bestUCB < INF
                 THEN NSUCBScan(s, i + 1, m.id, INF)
                 ELSE NSUCBScan(s, i + 1, bestId, bestUCB)
            ELSE LET u == NSUCBIndex(m, s.totalPulls)
                 IN IF u > bestUCB
                    THEN NSUCBScan(s, i + 1, m.id, u)
                    ELSE NSUCBScan(s, i + 1, bestId, bestUCB)

\* selectMachine; the ucb field it rewrites is recomputed by every reader
NSUCBSelectMachine(s) == [s |-> s, arm |-> NSUCBScan(s, 1, 0, 0 - INF)]

\* mutant of NSUCBBump: a change is declared without the baseline of 5 pulls
NSUCBBump_noBaseline(m, payout, windowSize, threshold) ==
    LET oldMean == IF m.pulls = 0 THEN 0 ELSE (m.totalPayout * 100) \div m.pulls
        pushed == Append(m.recentPayouts, payout)
        window == IF Len(pushed) > windowSize THEN Tail(pushed) ELSE pushed
        sumDev == Max(0, m.sumDeviations + (payout * 100 - oldMean - 5))
        minDev == Min(m.minSumDeviations, sumDev)
        u == [m EXCEPT !.pulls = @ + 1, !.totalPayout = @ + payout,
                       !.recentPayouts = window, !.sumDeviations = sumDev,
                       !.minSumDeviations = minDev]
    IN IF sumDev - minDev > threshold * 100
       THEN [u EXCEPT !.changeDetected = TRUE, !.lastChangePoint = u.pulls,
                      !.sumDeviations = 0, !.minSumDeviations = 0]
       ELSE u

\* mutant of NSUCBBump: the cumulative deviation is not clamped at 0
NSUCBBump_noClamp(m, payout, windowSize, threshold) ==
    LET oldMean == IF m.pulls = 0 THEN 0 ELSE (m.totalPayout * 100) \div m.pulls
        pushed == Append(m.recentPayouts, payout)
        window == IF Len(pushed) > windowSize THEN Tail(pushed) ELSE pushed
        sumDev == m.sumDeviations + (payout * 100 - oldMean - 5)
        minDev == Min(m.minSumDeviations, sumDev)
        u == [m EXCEPT !.pulls = @ + 1, !.totalPayout = @ + payout,
                       !.recentPayouts = window, !.sumDeviations = sumDev,
                       !.minSumDeviations = minDev]
    IN IF u.pulls > 5 /\ sumDev - minDev > threshold * 100
       THEN [u EXCEPT !.changeDetected = TRUE, !.lastChangePoint = u.pulls,
                      !.sumDeviations = 0, !.minSumDeviations = 0]
       ELSE u

\* the statistics of one arm after a payout (sliding window, Page-Hinkley)
NSUCBBump(m, payout, windowSize, threshold) ==
    LET oldMean == IF m.pulls = 0 THEN 0 ELSE (m.totalPayout * 100) \div m.pulls
        pushed == Append(m.recentPayouts, payout)
        window == IF Len(pushed) > windowSize THEN Tail(pushed) ELSE pushed
        sumDev == Max(0, m.sumDeviations + (payout * 100 - oldMean - 5))
        minDev == Min(m.minSumDeviations, sumDev)
        u == [m EXCEPT !.pulls = @ + 1, !.totalPayout = @ + payout,
                       !.recentPayouts = window, !.sumDeviations = sumDev,
                       !.minSumDeviations = minDev]
    IN IF u.pulls > 5 /\ sumDev - minDev > threshold * 100
       THEN [u EXCEPT !.changeDetected = TRUE, !.lastChangePoint = u.pulls,
                      !.sumDeviations = 0, !.minSumDeviations = 0]
       ELSE u

NSUCBUpdate(s, machineId, payout) ==
    LET t == [s EXCEPT !.totalPulls = @ + 1]
        i == FindMachine(s.machineEstimates, machineId)
    IN IF i = 0 THEN t
       ELSE [t EXCEPT !.machineEstimates[i] =
                NSUCBBump(@, payout, s.windowSize, s.changeDetectionThreshold)]

NSUCBReset(s) ==
    [s EXCEPT !.totalPulls = 0,
              !.machineEstimates =
                  [i \in 1..Len(s.machineEstimates) |->
                      [s.machineEstimates[i] EXCEPT
                          !.pulls = 0, !.totalPayout = 0,
                          !.recentPayouts = << >>, !.sumDeviations = 0,
                          !.minSumDeviations = 0, !.lastChangePoint = 0,
                          !.changeDetected = FALSE]]]

----------------------------------------------------------------------------
\* EXP3 and EXP3-R (EXP3Strategy, EXP3RStrategy)
\*
\* A weight is an IEEE double that only ever is 1.0 times a product of
\* Math.exp values: it is kept as its class and, for a positive finite
\* number, its natural logarithm in thousandths.  A probability is kept in
\* thousandths; NaN is the not-a-number double.  gamma is kept in hundredths,
\* eta and thresholdMultiplier in tenths.

NaN == 0 - 1000000

WNum(ln) == [c |-> "num", ln |-> ln]
WZero == [c |-> "zero", ln |-> 0]
WInf == [c |-> "inf", ln |-> 0]
WNaN == [c |-> "nan", ln |-> 0]

LnMaxDouble == 709782           \* 1000 * ln(Number.MAX_VALUE)
LnMinDouble == 0 - 745133       \* 1000 * ln of the smallest double not rounded to 0

\* 10000 * e^(-n), n = 0..9, and 10000 * e^(-j/10), j = 0..9
ExpNeg == << 10000, 3679, 1353, 498, 183, 67, 25, 9, 3, 1 >>
ExpNegTenth == << 10000, 9048, 8187, 7408, 6703, 6065, 5488, 4966, 4493, 4066 >>

\* 10000 * e^(d / 1000) for d <= 0
ExpMilli(d) ==
    LET a == 0 - d
    IN IF a > 9999 THEN 0
       ELSE (((ExpNeg[(a \div 1000) + 1] * ExpNegTenth[((a % 1000) \div 100) + 1])
              \div 10000) * (1000 - (a % 100))) \div 1000

\* weight * Math.exp(e / 1000)
WeightTimesExp(w, e) ==
    IF w.c = "nan" THEN WNaN
    ELSE IF e > LnMaxDouble
         THEN (IF w.c = "zero" THEN WNaN ELSE WInf)
    ELSE IF e < LnMinDouble
         THEN (IF w.c = "inf" THEN WNaN ELSE WZero)
    ELSE IF w.c # "num" THEN w
    ELSE IF w.ln + e > LnMaxDouble THEN WInf
    ELSE IF w.ln + e < LnMinDouble THEN WZero
    ELSE WNum(w.ln + e)

\* this.weights.reduce((a, b) => a + b, 0): the class of the sum
TotalWeight(weights) ==
    LET I == 1..Len(weights)
        nums == {i \in I : weights[i].c = "num"}
    IN IF \E i \in I : weights[i].c = "nan" THEN "nan"
       ELSE IF \E i \in I : weights[i].c = "inf" THEN "inf"
       ELSE IF nums = {} THEN "zero"
       ELSE LET top == MaxOf({weights[i].ln : i \in nums})
                parts == SumSeq([i \in I |->
                            IF i \in nums THEN ExpMilli(weights[i].ln - top) ELSE 0])
            IN IF top > LnMaxDouble - 3000
                  /\ parts * ExpMilli(top - LnMaxDouble) >= 100000000
               THEN "inf"
               ELSE "num"

\* weight / totalWeight in thousandths, for a positive finite total
WeightShare(weights, i) ==
    LET I == 1..Len(weights)
        nums == {j \in I : weights[j].c = "num"}
        top == MaxOf({weights[j].ln : j \in nums})
        parts == SumSeq([j \in I |->
                    IF j \in nums THEN ExpMilli(weights[j].ln - top) ELSE 0])
    IN IF i \in nums THEN (1000 * ExpMilli(weights[i].ln - top)) \div parts ELSE 0

\* updateProbabilities: (1 - gamma) * (weight / totalWeight) + gamma / numMachines
Probabilities(weights, gamma, numMachines) ==
    LET total == TotalWeight(weights)
        floor == (gamma * 10) \div numMachines
    IN [i \in 1..Len(weights) |->
           IF total \in {"nan", "zero"} THEN NaN
           ELSE IF total = "inf"
                THEN (IF weights[i].c = "inf" THEN NaN ELSE floor)
           ELSE (((100 - gamma) * WeightShare(weights, i)) \div 100) + floor]

Exp3Initialize(machineConfigs, options) ==
    LET k == Len(machineConfigs)
        w == [i \in 1..k |-> WNum(0)]
    IN [kind |-> "exp3", totalPulls |-> 0, numMachines |-> k,
        gamma |-> options.gamma, eta |-> options.eta,
        weights |-> w, probabilities |-> Probabilities(w, options.gamma, k),
        machineEstimates |-> NewEstimates(machineConfigs)]

\* the for loop of selectMachine from entry i on; rand is Math.random() in
\* thousandths.  A comparison with NaN is false.
RECURSIVE Exp3Scan(_, _, _, _)
Exp3Scan(s, rand, i, cumulativeProbability) ==
    IF i > s.numMachines THEN s.machineEstimates[s.numMachines].id
    ELSE LET c == IF cumulativeProbability = NaN \/ s.probabilities[i] = NaN
                  THEN NaN
                  ELSE cumulativeProbability + s.probabilities[i]
         IN IF c # NaN /\ rand < c THEN s.machineEstimates[i].id
            ELSE Exp3Scan(s, rand, i + 1, c)

Exp3SelectMachine(s, rand) == [s |-> s, arm |-> Exp3Scan(s, rand, 1, 0)]

\* 1000 * eta * ((payout + 10) / 20 / probability) / numMachines
Exp3Exponent(s, i, payout) ==
    ((payout + 10) * 5000 * s.eta) \div (s.probabilities[i] * s.numMachines)

\* mutant of Exp3Reweigh: every arm's weight takes the factor
Exp3Reweigh_everyArm(s, i, payout) ==
    LET ws == [j \in 1..Len(s.weights) |->
                  IF s.probabilities[i] = NaN THEN WNaN
                  ELSE WeightTimesExp(s.weights[j], Exp3Exponent(s, i, payout))]
    IN [s EXCEPT !.weights = ws,
                 !.probabilities = Probabilities(ws, s.gamma, s.numMachines)]

\* this.weights[machineIndex] *= Math.exp(...); this.updateProbabilities()
Exp3Reweigh(s, i, payout) ==
    LET w == IF s.probabilities[i] = NaN THEN WNaN
             ELSE WeightTimesExp(s.weights[i], Exp3Exponent(s, i, payout))
        ws == [s.weights EXCEPT ![i] = w]
    IN [s EXCEPT !.weights = ws,
                 !.probabilities = Probabilities(ws, s.gamma, s.numMachines)]

Exp3Update(s, machineId, payout) ==
    LET t == [s EXCEPT !.totalPulls = @ + 1]
        i == FindMachine(s.machineEstimates, machineId)
    IN IF i = 0 THEN t
       ELSE Exp3Reweigh([t EXCEPT !.machineEstimates[i] = BumpEstimate(@, payout)],
                        i, payout)

Exp3Reset(s) ==
    LET w == [i \in 1..s.numMachines |-> WNum(0)]
    IN [s EXCEPT !.totalPulls = 0, !.weights = w,
                 !.probabilities = Probabilities(w, s.gamma, s.numMachines),
                 !.machineEstimates =
                     [i \in 1..Len(s.machineEstimates) |->
                         [s.machineEstimates[i] EXCEPT
                             !.pulls = 0, !.totalPayout = 0]]]

\* EXP3-R: the rewardVariances field is written and never read; it is not
\* part of the state kept here.  recentPayouts, the per-arm copy of the
\* reward window kept in machineEstimates, is.
Exp3RInitialize(machineConfigs, options) ==
    LET k == Len(machineConfigs)
        w == [i \in 1..k |-> WNum(0)]
    IN [kind |-> "exp3r", totalPulls |-> 0, numMachines |-> k,
        gamma |-> options.gamma, eta |-> options.eta,
        windowSize |-> IF options.windowSize # 0 THEN options.windowSize ELSE 20,
        thresholdMultiplier |->
            IF options.thresholdMultiplier # 0
            THEN options.thresholdMultiplier ELSE 20,
        weights |-> w, probabilities |-> Probabilities(w, options.gamma, k),
        rewardWindows |-> [i \in 1..k |-> << >>],
        lastResets |-> [i \in 1..k |-> 0],
        machineEstimates |->
            [i \in 1..k |->
                [id |-> machineConfigs[i].id, pulls |-> 0, totalPayout |-> 0,
                 recentPayouts |-> << >>,
                 changeDetected |-> FALSE, lastReset |-> 0]]]

\* window.push(payout); machine.recentPayouts.push(payout);
\* if (window.length > this.windowSize)
\*     { window.shift(); machine.recentPayouts.shift() }
Exp3RPushWindow(s, i, payout) ==
    LET pushed == Append(s.rewardWindows[i], payout)
        recent == Append(s.machineEstimates[i].recentPayouts, payout)
        full == Len(pushed) > s.windowSize
    IN [s EXCEPT !.rewardWindows[i] = IF full THEN Tail(pushed) ELSE pushed,
                 !.machineEstimates[i].recentPayouts =
                     IF full THEN Tail(recent) ELSE recent]

\* sum of the squares of the window
RECURSIVE SumSquares(_)
SumSquares(q) == IF q = << >> THEN 0 ELSE Head(q) * Head(q) + SumSquares(Tail(q))

\* mutant of Exp3RChangeDetected: no wait after the arm's last reset
Exp3RChangeDetected_noWait(s, i) ==
    LET window == s.rewardWindows[i]
        m == s.machineEstimates[i]
        n == Len(window)
        sum == SumSeq(window)
        v == n * SumSquares(window) - sum * sum
        d == sum * m.pulls - m.totalPayout * n
    IN /\ n >= 5
       /\ m.pulls >= 10
       /\ 100 * d * d > s.thresholdMultiplier * s.thresholdMultiplier
                          * m.pulls * m.pulls * v
       /\ 10000 * v > n * n

\* the value detectChange returns, on the state after its window push:
\* meanDiff > thresholdMultiplier * stdDev && stdDev > 0.01, with
\* variance = (n * sum of squares - sum^2) / n^2, compared after squaring
Exp3RChangeDetected(s, i) ==
    LET window == s.rewardWindows[i]
        m == s.machineEstimates[i]
        n == Len(window)
        sum == SumSeq(window)
        v == n * SumSquares(window) - sum * sum
        d == sum * m.pulls - m.totalPayout * n
    IN /\ n >= 5
       /\ m.pulls >= 10
       /\ s.totalPulls - s.lastResets[i] >= 10
       /\ 100 * d * d > s.thresholdMultiplier * s.thresholdMultiplier
                          * m.pulls * m.pulls * v
       /\ 10000 * v > n * n

Exp3RResetMachine(s, i) ==
    LET ws == [s.weights EXCEPT ![i] = WNum(0)]
    IN [s EXCEPT !.weights = ws,
                 !.lastResets[i] = s.totalPulls,
                 !.machineEstimates[i].lastReset = s.totalPulls,
                 !.machineEstimates[i].changeDetected = TRUE,
                 !.rewardWindows[i] = << >>,
                 !.probabilities = Probabilities(ws, s.gamma, s.numMachines)]

\* handlePermutation recording round 0 instead of the current round
Exp3RHandlePermutation_resetsToZero(s) ==
    LET w == [i \in 1..s.numMachines |-> WNum(0)]
    IN [s EXCEPT !.weights = w,
                 !.rewardWindows = [i \in 1..s.numMachines |-> << >>],
                 !.lastResets = [i \in 1..s.numMachines |-> 0],
                 !.machineEstimates =
                     [i \in 1..Len(s.machineEstimates) |->
                         [s.machineEstimates[i] EXCEPT
                             !.changeDetected = TRUE,
                             !.lastReset = 0,
                             !.recentPayouts = << >>]],
                 !.probabilities = Probabilities(w, s.gamma, s.numMachines)]

Exp3RHandlePermutation(s) ==
    LET w == [i \in 1..s.numMachines |-> WNum(0)]
    IN [s EXCEPT !.weights = w,
                 !.rewardWindows = [i \in 1..s.numMachines |-> << >>],
                 !.lastResets = [i \in 1..s.numMachines |-> s.totalPulls],
                 !.machineEstimates =
                     [i \in 1..Len(s.machineEstimates) |->
                         [s.machineEstimates[i] EXCEPT
                             !.changeDetected = TRUE,
                             !.lastReset = s.totalPulls,
                             !.recentPayouts = << >>]],
                 !.probabilities = Probabilities(w, s.gamma, s.numMachines)]

Exp3RUpdate(s, machineId, payout) ==
    LET t == [s EXCEPT !.totalPulls = @ + 1]
        i == FindMachine(s.machineEstimates, machineId)
    IN IF i = 0 THEN t
       ELSE LET u == Exp3RPushWindow(
                        [t EXCEPT !.machineEstimates[i] = BumpEstimate(@, payout)],
                        i, payout)
            IN IF Exp3RChangeDetected(u, i) THEN Exp3RResetMachine(u, i)
               ELSE LET r == Exp3Reweigh(u, i, payout)
                    IN IF r.machineEstimates[i].changeDetected
                          /\ r.totalPulls - r.machineEstimates[i].lastReset > 30
                       THEN [r EXCEPT !.machineEstimates[i].changeDetected = FALSE]
                       ELSE r

Exp3RReset(s) ==
    LET w == [i \in 1..s.numMachines |-> WNum(0)]
    IN [s EXCEPT !.totalPulls = 0, !.weights = w,
                 !.rewardWindows = [i \in 1..s.numMachines |-> << >>],
                 !.lastResets = [i \in 1..s.numMachines |-> 0],
                 !.probabilities = Probabilities(w, s.gamma, s.numMachines),
                 !.machineEstimates =
                     [i \in 1..Len(s.machineEstimates) |->
                         [s.machineEstimates[i] EXCEPT
                             !.pulls = 0, !.totalPayout = 0,
                             !.recentPayouts = << >>,
                             !.changeDetected = FALSE, !.lastReset = 0]]]

----------------------------------------------------------------------------
\* The Strategy interface, dispatched on the variant
SelectMachine(s) ==
    IF s.kind = "ucb" THEN UCBSelectMachine(s)
    ELSE IF s.kind = "ns-ucb" THEN NSUCBSelectMachine(s)
    ELSE ABTestSelectMachine(s)

\* the values Math.random() is represented by, in thousandths
Rands == {0, 999}

\* the variants whose selectMachine draws Math.random()
Randomized(s) == s.kind \in {"exp3", "exp3r"}

\* typeof strategy.handlePermutation === 'function'
HasHook(inst) == inst.kind = "exp3r"

\* selectMachine when its Math.random() call, if it makes one, returns rand
SelectMachineAt(s, rand) ==
    IF Randomized(s) THEN Exp3SelectMachine(s, rand) ELSE SelectMachine(s)

Update(s, machineId, payout) ==
    IF s.kind = "ucb" THEN UCBUpdate(s, machineId, payout)
    ELSE IF s.kind = "ns-ucb" THEN NSUCBUpdate(s, machineId, payout)
    ELSE IF s.kind = "exp3" THEN Exp3Update(s, machineId, payout)
    ELSE IF s.kind = "exp3r" THEN Exp3RUpdate(s, machineId, payout)
    ELSE ABTestUpdate(s, machineId, payout)

Reset(s) ==
    IF s.kind = "ucb" THEN UCBReset(s)
    ELSE IF s.kind = "ns-ucb" THEN NSUCBReset(s)
    ELSE IF s.kind = "exp3" THEN Exp3Reset(s)
    ELSE IF s.kind = "exp3r" THEN Exp3RReset(s)
    ELSE ABTestReset(s)

----------------------------------------------------------------------------
\* StrategyFactory.createStrategy

\* the cases of the switch; any other type reaches default: throw
FactoryKnows(type) == type \in {"ucb", "ns-ucb", "abtest", "exp3", "exp3r"}

\* new module.XStrategy(): an object without any field set
StrategyNew(type) == [kind |-> type]

\* strategy.initialize(machineConfigs, options)
StrategyInitialize(inst, machineConfigs, options) ==
    IF inst.kind = "ucb" THEN UCBInitialize(machineConfigs)
    ELSE IF inst.kind = "ns-ucb" THEN NSUCBInitialize(machineConfigs, options)
    ELSE IF inst.kind = "exp3" THEN Exp3Initialize(machineConfigs, options)
    ELSE IF inst.kind = "exp3r" THEN Exp3RInitialize(machineConfigs, options)
    ELSE ABTestInitialize(machineConfigs, options.samplesPerMachine)

\* mutant of CreateStrategy: the callback returns the instance without
\* calling initialize on it
CreateStrategy_skipInitialize(type, machineConfigs, options) ==
    StrategyNew(type)

\* the body of the .then callback: what the returned promise resolves to
CreateStrategy(type, machineConfigs, options) ==
    StrategyInitialize(StrategyNew(type), machineConfigs, options)

\* an instance whose initialize() has run
Initialized(inst) == "totalPulls" \in DOMAIN inst

----------------------------------------------------------------------------
\* A strategy instance driven directly through its interface

IdsOf(machineConfigs) == {machineConfigs[i].id : i \in 1..Len(machineConfigs)}

ArmIds(s) == {s.machineEstimates[i].id : i \in 1..Len(s.machineEstimates)}

GhostZero(s) == [a \in ArmIds(s) |-> [cnt |-> 0, sum |-> 0]]

\* exploration budget of the instance (0 for a variant without one)
Budget(s) == IF s.kind = "abtest" THEN s.explorationPhaseLength ELSE 0

AppStart ==
    /\ currentMachineConfigs = <<>>
    /\ chartConfigs = <<>>
    /\ totalPulls = 0
    /\ machineData = <<>>
    /\ mgr = [machineConfigs |-> <<>>, strategies |-> <<>>,
              selectedTypes |-> <<"ucb">>,
              strategyOptions |-> [abtest |-> [samplesPerMachine |-> 10]]]
    /\ tasks = <<>>
    /\ nCalls = 0
    /\ origin = <<>>
    /\ chart = [strategyPayouts |-> <<>>, bestPossibleTotalPayout |-> 0,
                bestMachineIndex |-> 0 - 1, bestMachineEV |-> 0]
    /\ regret = [userCumulativeRegret |-> 0, strategyRegrets |-> <<>>,
                 bestMachineIndex |-> 0 - 1, bestMachineEV |-> 0,
                 labels |-> 0, datasets |-> <<>>]
    /\ round = [n |-> 0]
    /\ roundsSinceConfig = 0
    /\ pullsMade = 0
    /\ hardModeEnabled = FALSE
    /\ forced = 0
    /\ permCount = 0
    /\ owed = {}
    /\ shuffles = 0

StratStart(s) ==
    /\ strat = s
    /\ lastCall = "init"
    /\ lastSel = NoArm
    /\ calls = 0
    /\ alt = TRUE
    /\ ghost = GhostZero(s)
    /\ updates = 0

StratInit ==
    /\ \E reg \in Registries :
          \/ StratStart(CreateStrategy("ucb", reg, [samplesPerMachine |-> 0]))
          \/ \E n \in 1..MaxSamples :
                StratStart(CreateStrategy("abtest", reg, [samplesPerMachine |-> n]))
    /\ AppStart

\* selectMachine()
StratSelectWithin(bound) ==
    /\ calls < bound
    /\ \E rand \in (IF Randomized(strat) THEN Rands ELSE {0}) :
          LET r == SelectMachineAt(strat, rand)
          IN /\ strat' = r.s
             /\ lastSel' = r.arm
    /\ lastCall' = "select"
    /\ calls' = calls + 1
    /\ alt' = (alt /\ lastCall # "select")
    /\ UNCHANGED <<ghost, updates>>
    /\ UNCHANGED appVars

StratSelect == StratSelectWithin(MaxStratCalls)

\* update(machineId, payout)
StratUpdateWithin(bound, payouts) ==
    /\ calls < bound
    /\ \E a \in ArmIds(strat), r \in payouts :
          /\ strat' = Update(strat, a, r)
          /\ alt' = (alt /\ lastCall = "select" /\ a = lastSel)
          /\ ghost' = IF updates < Budget(strat)
                      THEN [ghost EXCEPT ![a] = [cnt |-> @.cnt + 1, sum |-> @.sum + r]]
                      ELSE ghost
    /\ lastCall' = "update"
    /\ calls' = calls + 1
    /\ updates' = updates + 1
    /\ UNCHANGED lastSel
    /\ UNCHANGED appVars

StratUpdate == StratUpdateWithin(MaxStratCalls, Rewards)

\* reset()
StratResetWithin(bound) ==
    /\ calls < bound
    /\ lastCall # "init"
    /\ strat' = Reset(strat)
    /\ lastCall' = "reset"
    /\ lastSel' = NoArm
    /\ calls' = calls + 1
    /\ alt' = TRUE
    /\ ghost' = GhostZero(strat)
    /\ updates' = 0
    /\ UNCHANGED appVars

StratReset == StratResetWithin(MaxStratCalls)

StratNext == StratSelect \/ StratUpdate \/ StratReset

SpecStrategy == StratInit /\ [][StratNext]_vars

\* The two index policies driven directly: UCB1 and Non-Stationary UCB (with
\* a window of 2 and a change threshold of 1, so that a detected change is
\* within reach of a short run)
IndexRewards == {0, 2}

IndexInit ==
    /\ \E reg \in Registries :
          \/ StratStart(CreateStrategy("ucb", reg, [samplesPerMachine |-> 0]))
          \/ StratStart(CreateStrategy("ns-ucb", reg,
                [windowSize |-> 2, changeDetectionThreshold |-> 1]))
    /\ AppStart

IndexSelect == StratSelectWithin(MaxIndexCalls)

IndexUpdate == StratUpdateWithin(MaxIndexCalls, IndexRewards)

IndexReset == StratResetWithin(MaxIndexCalls)

IndexNext == IndexSelect \/ IndexUpdate \/ IndexReset

SpecIndex == IndexInit /\ [][IndexNext]_vars

\* The two exponential-weight policies driven directly: EXP3 and EXP3-R with
\* the manager's default options.  update takes any number as payout: a small
\* one and two far outside the [-10, 10] the normalization assumes.
LargePayout == 200000

WeightPayouts == {1, LargePayout, 0 - LargePayout}

WeightsInit ==
    /\ \E reg \in Registries :
          \/ StratStart(CreateStrategy("exp3", reg, [gamma |-> 10, eta |-> 1]))
          \/ StratStart(CreateStrategy("exp3r", reg,
                [gamma |-> 10, eta |-> 1, windowSize |-> 20,
                 thresholdMultiplier |-> 20]))
    /\ AppStart

WeightsSelect == StratSelectWithin(MaxWeightCalls)

WeightsUpdate == StratUpdateWithin(MaxWeightCalls, WeightPayouts)

WeightsReset == StratResetWithin(MaxWeightCalls)

\* handlePermutation(newConfigs), on the variant that has the hook
StratPermutationWithin(bound) ==
    /\ calls < bound
    /\ HasHook(strat)
    /\ strat' = Exp3RHandlePermutation(strat)
    /\ lastCall' = "permutation"
    /\ calls' = calls + 1
    /\ alt' = FALSE
    /\ UNCHANGED <<lastSel, ghost, updates>>
    /\ UNCHANGED appVars

WeightsPermutation == StratPermutationWithin(MaxWeightCalls)

WeightsNext == WeightsSelect \/ WeightsUpdate \/ WeightsReset \/ WeightsPermutation

SpecWeights == WeightsInit /\ [][WeightsNext]_vars

\* EXP3-R driven directly over many rounds.  The first arm takes any of the
\* given payouts; every other arm is updated a bounded number of times, and
\* the permutation notification arrives a bounded number of times (counted
\* in permCount).
Exp3RDrivenInit(options) ==
    /\ \E reg \in Registries : Len(reg) = 2 /\ StratStart(CreateStrategy("exp3r", reg, options))
    /\ AppStart

\* update(machineId, payout)
Exp3RDrivenUpdate(bound, firstPayouts, otherPayouts, otherPulls) ==
    /\ calls < bound
    /\ \E i \in 1..strat.numMachines :
          /\ i > 1 => strat.machineEstimates[i].pulls < otherPulls
          /\ \E payout \in (IF i = 1 THEN firstPayouts ELSE otherPayouts) :
                strat' = Update(strat, strat.machineEstimates[i].id, payout)
    /\ lastCall' = "update"
    /\ calls' = calls + 1
    /\ updates' = updates + 1
    /\ alt' = FALSE
    /\ UNCHANGED <<lastSel, ghost>>
    /\ UNCHANGED appVars

\* handlePermutation(newConfigs)
Exp3RDrivenPermutation(bound, permutations) ==
    /\ calls < bound
    /\ permCount < permutations
    /\ strat' = Exp3RHandlePermutation(strat)
    /\ permCount' = permCount + 1
    /\ lastCall' = "permutation"
    /\ calls' = calls + 1
    /\ alt' = FALSE
    /\ UNCHANGED <<lastSel, ghost, updates>>
    /\ UNCHANGED <<currentMachineConfigs, chartConfigs, totalPulls, machineData,
                   mgr, tasks, nCalls, origin, chart, regret, round,
                   roundsSinceConfig, pullsMade, hardModeEnabled, forced, owed,
                   shuffles>>

\* Change detection within reach: a window of 5 and a threshold multiplier
\* of 0.5; the first arm pays 0 or 10
MaxDetectCalls == 12    \* calls made on the instance
MaxDetectOther == 1     \* updates of the second arm
MaxDetectPerms == 1     \* permutation notifications

DetectInit ==
    Exp3RDrivenInit([gamma |-> 10, eta |-> 1, windowSize |-> 5,
                     thresholdMultiplier |-> 5])

DetectUpdate == Exp3RDrivenUpdate(MaxDetectCalls, {0, 10}, {0}, MaxDetectOther)

DetectPermutation == Exp3RDrivenPermutation(MaxDetectCalls, MaxDetectPerms)

DetectNext == DetectUpdate \/ DetectPermutation

SpecDetect == DetectInit /\ [][DetectNext]_vars

\* A long run with the manager's default options: the first arm always pays 1
MaxLongCalls == 34      \* calls made on the instance
MaxLongOther == 1       \* updates of the second arm
MaxLongPerms == 1       \* permutation notifications

LongInit ==
    Exp3RDrivenInit([gamma |-> 10, eta |-> 1, windowSize |-> 20,
                     thresholdMultiplier |-> 20])

LongUpdate == Exp3RDrivenUpdate(MaxLongCalls, {1}, {1}, MaxLongOther)

LongPermutation == Exp3RDrivenPermutation(MaxLongCalls, MaxLongPerms)

LongNext == LongUpdate \/ LongPermutation

SpecLongRun == LongInit /\ [][LongNext]_vars

\* Every variant the factory builds, driven directly through its whole
\* interface; update is also called with an arm id that is not configured
\* (the ids being 0..k-1, the id k)
MaxLifeCalls == 5       \* calls made on the instance

LifeRewards == {0, 2}

\* the instances createStrategy returns for a registry
LifeStarts(reg) ==
    { CreateStrategy("ucb", reg, [samplesPerMachine |-> 0]),
      CreateStrategy("ns-ucb", reg,
          [windowSize |-> 2, changeDetectionThreshold |-> 1]),
      CreateStrategy("abtest", reg, [samplesPerMachine |-> 1]),
      CreateStrategy("exp3", reg, [gamma |-> 10, eta |-> 1]),
      CreateStrategy("exp3r", reg,
          [gamma |-> 10, eta |-> 1, windowSize |-> 2,
           thresholdMultiplier |-> 20]) }

LifeInit ==
    /\ \E reg \in Registries : \E s \in LifeStarts(reg) : StratStart(s)
    /\ AppStart

LifeSelect == StratSelectWithin(MaxLifeCalls)

LifeUpdate == StratUpdateWithin(MaxLifeCalls, LifeRewards)

\* update(machineId, payout) with a machineId no estimate has
LifeUpdateUnknown ==
    /\ calls < MaxLifeCalls
    /\ \E r \in LifeRewards :
          strat' = Update(strat, Len(strat.machineEstimates), r)
    /\ lastCall' = "update"
    /\ calls' = calls + 1
    /\ updates' = updates + 1
    /\ alt' = FALSE
    /\ UNCHANGED <<lastSel, ghost>>
    /\ UNCHANGED appVars

LifeReset == StratResetWithin(MaxLifeCalls)

LifePermutation == StratPermutationWithin(MaxLifeCalls)

LifeNext ==
    \/ LifeSelect
    \/ LifeUpdate
    \/ LifeUpdateUnknown
    \/ LifeReset
    \/ LifePermutation

SpecLifecycle == LifeInit /\ [][LifeNext]_vars

----------------------------------------------------------------------------
\* Sampling and expected values

Range(seq) == {seq[i] : i \in 1..Len(seq)}

\* machineConfigs.find(config => config.id === machineId): index, 0 if none
FindConfig(machineConfigs, machineId) ==
    IF \E i \in 1..Len(machineConfigs) : machineConfigs[i].id = machineId
    THEN CHOOSE i \in 1..Len(machineConfigs) :
            /\ machineConfigs[i].id = machineId
            /\ \A j \in 1..(i - 1) : machineConfigs[j].id # machineId
    ELSE 0

\* Distributions.sample(type, params): the values a call can return.
\* uniform: min + random * (max - min), represented by the integers of
\* [min, max), of (max, min] when min > max, min itself when min = max;
\* normal: mean + stdDev * z, represented by z = -1, 0, 1;
\* chi-squared: a sum of squares, represented by 0 and the degrees of freedom;
\* exponential: -log(1 - random) / rate, represented by 0 and 1;
\* poisson: a count, represented by 0 and lambda;
\* any type without a case of the switch returns 0.
Sample(distribution, parameters) ==
    IF distribution = "uniform"
    THEN (IF parameters[1] < parameters[2]
          THEN parameters[1]..(parameters[2] - 1)
          ELSE IF parameters[1] = parameters[2] THEN {parameters[1]}
          ELSE (parameters[2] + 1)..parameters[1])
    ELSE IF distribution = "normal"
    THEN {parameters[1] - parameters[2], parameters[1], parameters[1] + parameters[2]}
    ELSE IF distribution \in {"chi-squared", "poisson"}
    THEN {0, parameters[1]}
    ELSE IF distribution = "exponential"
    THEN {0, 1}
    ELSE {0}

\* getExpectedValue / the switch of determineBestMachine, times EVScale
ExpectedValue(config) ==
    IF config.distribution = "uniform"
    THEN ((config.parameters[1] + config.parameters[2]) * EVScale) \div 2
    ELSE IF config.distribution = "bernoulli"
    THEN (config.parameters[1] * EVScale) \div PScale
    ELSE IF config.distribution \in {"normal", "poisson", "chi-squared"}
    THEN config.parameters[1] * EVScale
    ELSE IF config.distribution = "exponential"
    THEN EVScale \div config.parameters[1]
    ELSE 0

\* the forEach of determineBestMachine from entry i on: [index, ev] of the best
RECURSIVE BestMachineScan(_, _, _, _)
BestMachineScan(machineConfigs, i, bestIndex, bestEV) ==
    IF i > Len(machineConfigs) THEN [index |-> bestIndex, ev |-> bestEV]
    ELSE LET ev == ExpectedValue(machineConfigs[i])
         IN IF bestIndex = 0 - 1 \/ ev > bestEV
            THEN BestMachineScan(machineConfigs, i + 1, i - 1, ev)
            ELSE BestMachineScan(machineConfigs, i + 1, bestIndex, bestEV)

DetermineBestMachine(machineConfigs) ==
    BestMachineScan(machineConfigs, 1, 0 - 1, 0)

\* the vectors (functions on ids) with an entry of allowed[id] for every id
RECURSIVE PayoutVectors(_, _)
PayoutVectors(allowed, ids) ==
    IF ids = {} THEN {<<>>}
    ELSE LET a == CHOOSE x \in ids : TRUE
         IN {(a :> v) @@ f : v \in allowed[a], f \in PayoutVectors(allowed, ids \ {a})}

\* generateRoundPayouts(pulledMachineId, actualPayout): the vectors it can
\* return; the pulled arm keeps the actual payout, every other arm is sampled
GenerateRoundPayouts(machineConfigs, pulledMachineId, actualPayout) ==
    LET ids == IdsOf(machineConfigs)
        allowed == [a \in ids |->
            LET cfg == machineConfigs[FindConfig(machineConfigs, a)]
            IN IF a = pulledMachineId THEN {actualPayout}
               ELSE Sample(cfg.distribution, cfg.parameters)]
    IN PayoutVectors(allowed, ids)

\* chart.js, generateConsistentRoundPayouts: the hash of (round, machine)
ChartHash(roundSeed, machineId) == (roundSeed * 9301 + machineId * 49297) % 233280

\* generateConsistentRoundPayouts(pulledMachineId, actualPayout): bernoulli
\* from the hash (hash / 233280 < p); normal from the hash too, kept as any
\* of the values that represent a normal sample; any other family through
\* Distributions.sample
GenerateConsistentRoundPayouts(machineConfigs, pulledMachineId, actualPayout, roundSeed) ==
    LET ids == IdsOf(machineConfigs)
        allowed == [a \in ids |->
            LET cfg == machineConfigs[FindConfig(machineConfigs, a)]
            IN IF a = pulledMachineId THEN {actualPayout}
               ELSE IF cfg.distribution = "bernoulli"
                    THEN {IF ChartHash(roundSeed, a) * PScale
                                 < cfg.parameters[1] * 233280
                          THEN 1 ELSE 0}
                    ELSE Sample(cfg.distribution, cfg.parameters)]
    IN PayoutVectors(allowed, ids)


----------------------------------------------------------------------------
\* MultiStrategyManager

\* the strategy checkboxes of the sidebar, in document order
SidebarOrder == <<"ucb", "ns-ucb", "abtest", "exp3", "exp3r", "optimal">>

\* the selections the sidebar can apply (checked boxes, in document order)
Selections ==
    { <<"ucb", "abtest">>, <<"optimal">> }

\* The values entered in the samples-per-machine field of the sidebar
SamplesEntered == {1}

\* this.strategyOptions[type], {} when the manager keeps none for the type
OptionsOf(m, type) ==
    IF type = "abtest" THEN m.strategyOptions.abtest
    ELSE IF type = "ns-ucb" THEN [windowSize |-> 20, changeDetectionThreshold |-> 50]
    ELSE IF type = "exp3" THEN [gamma |-> 10, eta |-> 1]
    ELSE IF type = "exp3r" THEN [gamma |-> 10, eta |-> 1, windowSize |-> 20,
                                 thresholdMultiplier |-> 20]
    ELSE [samplesPerMachine |-> 0]

\* the for-of of initialize from entry i on, up to its next await: a type the
\* factory throws on is caught and skipped; Len + 1 when the loop ends
RECURSIVE NextAwait(_, _)
NextAwait(types, i) ==
    IF i > Len(types) THEN i
    ELSE IF FactoryKnows(types[i]) THEN i
         ELSE NextAwait(types, i + 1)

\* mutant of InitializeBegin: the existing strategies are not cleared
InitializeBegin_keepStrategies(m, machineConfigs) ==
    [m EXCEPT !.machineConfigs = machineConfigs]

\* initialize, up to the loop: this.machineConfigs = machineConfigs;
\* this.strategies = {}
InitializeBegin(m, machineConfigs) ==
    [m EXCEPT !.machineConfigs = machineConfigs, !.strategies = <<>>]

\* the invocation record of initialize(machineConfigs) after its synchronous
\* part: suspended at the await of entry i, or returned
InitializeTask(m, machineConfigs) ==
    LET types == m.selectedTypes
        j == NextAwait(types, 1)
    IN IF j <= Len(types)
       THEN [state |-> "awaiting", built |-> 0, types |-> types, i |-> j,
             machineConfigs |-> machineConfigs,
             options |-> OptionsOf(m, types[j])]
       ELSE [state |-> "returned", built |-> 0]

\* simulateStrategiesWithPayouts, one strategy: the arm chosen and the state after
SimulateOne(s, roundPayouts, rand) ==
    LET sel == SelectMachineAt(s, rand)
    IN [arm |-> sel.arm,
        s |-> IF sel.arm \in DOMAIN roundPayouts
              THEN Update(sel.s, sel.arm, roundPayouts[sel.arm])
              ELSE sel.s]

\* mutant of SimulateStrategiesWithPayouts: every strategy is updated with
\* the arm chosen by the first one
SimulateStrategiesWithPayouts_sharedChoice(strategies, roundPayouts, rand) ==
    [t \in DOMAIN strategies |->
        LET first == CHOOSE u \in DOMAIN strategies :
                        \A v \in DOMAIN strategies :
                            \E i, j \in 1..Len(SidebarOrder) :
                                /\ SidebarOrder[i] = u /\ SidebarOrder[j] = v
                                /\ i <= j
            arm == SelectMachineAt(strategies[first], rand).arm
            sel == SelectMachineAt(strategies[t], rand)
        IN [arm |-> arm,
            s |-> IF arm \in DOMAIN roundPayouts
                  THEN Update(sel.s, arm, roundPayouts[arm])
                  ELSE sel.s]]

SimulateStrategiesWithPayouts(strategies, roundPayouts, rand) ==
    [t \in DOMAIN strategies |-> SimulateOne(strategies[t], roundPayouts, rand)]

GetRecommendations(strategies, rand) ==
    [t \in DOMAIN strategies |-> SelectMachineAt(strategies[t], rand)]

\* the Math.random() values a round can see: one per selectMachine call of a
\* randomized strategy, first in the simulation and then in the recommendation
RandsAt(strategies) ==
    IF \E t \in DOMAIN strategies : Randomized(strategies[t])
    THEN Rands \X Rands ELSE {<<0, 0>>}

----------------------------------------------------------------------------
\* Charts

\* updateChart: strategyPayouts and bestPossibleTotalPayout
UpdateChart(c, chartPayouts, recommendations) ==
    LET credited == {t \in DOMAIN recommendations :
                        recommendations[t] \in DOMAIN chartPayouts}
    IN IF c.bestMachineIndex = 0 - 1 THEN c
       ELSE [c EXCEPT
               !.strategyPayouts =
                   [t \in DOMAIN c.strategyPayouts \cup credited |->
                       (IF t \in DOMAIN c.strategyPayouts
                        THEN c.strategyPayouts[t] ELSE 0)
                       + (IF t \in credited
                          THEN chartPayouts[recommendations[t]] ELSE 0)],
               !.bestPossibleTotalPayout =
                   @ + MaxOf({chartPayouts[a] : a \in DOMAIN chartPayouts})]

\* regretChart.js

Undefined == 0 - 2000000

maxDataPoints == 100

\* getStrategyLabel(strategyType)
GetStrategyLabel(strategyType) ==
    IF strategyType = "ucb" THEN "UCB"
    ELSE IF strategyType = "ns-ucb" THEN "Non-Stationary UCB"
    ELSE IF strategyType = "abtest" THEN "A/B Testing"
    ELSE IF strategyType = "exp3" THEN "EXP3"
    ELSE IF strategyType = "exp3r" THEN "EXP3-R"
    ELSE strategyType

\* getStrategyLabel(strategyType) + ' Regret'
DatasetLabel(strategyType) ==
    IF strategyType = "ucb" THEN "UCB Regret"
    ELSE IF strategyType = "ns-ucb" THEN "Non-Stationary UCB Regret"
    ELSE IF strategyType = "abtest" THEN "A/B Testing Regret"
    ELSE IF strategyType = "exp3" THEN "EXP3 Regret"
    ELSE IF strategyType = "exp3r" THEN "EXP3-R Regret"
    ELSE "Regret"

\* label.includes(text), for the dataset labels and strategy labels above
LabelIncludes(label, text) ==
    \/ \E t \in {"ucb", "ns-ucb", "abtest", "exp3", "exp3r"} :
          label = DatasetLabel(t) /\ text = GetStrategyLabel(t)
    \/ label = "Non-Stationary UCB Regret" /\ text = "UCB"
    \/ label = "EXP3-R Regret" /\ text = "EXP3"

\* initializeRegretChart, after resetRegretChart: one dataset, one label
InitializeRegretChart(best) ==
    [userCumulativeRegret |-> 0, strategyRegrets |-> <<>>,
     bestMachineIndex |-> best.index, bestMachineEV |-> best.ev,
     labels |-> 1,
     datasets |-> << [type |-> "user", label |-> "Your Cumulative Regret",
                      data |-> <<0>>] >>]

\* data.slice(-maxDataPoints) when longer than maxDataPoints
KeepLast(data) ==
    IF Len(data) > maxDataPoints
    THEN SubSeq(data, Len(data) - maxDataPoints + 1, Len(data))
    ELSE data

\* addStrategyRegretDataset: zero-filled up to the current label count - 1;
\* type is the argument the label is derived from
AddStrategyRegretDataset(r, strategyType) ==
    [r EXCEPT !.datasets = Append(@,
        [type |-> strategyType, label |-> DatasetLabel(strategyType),
         data |-> [i \in 1..(r.labels - 1) |-> 0]])]

\* updateRegretChart, the for-in over recommendations from entry i of order on
RECURSIVE ChargeStrategies(_, _, _, _, _)
ChargeStrategies(r, machineConfigs, recommendations, order, i) ==
    IF i > Len(order) THEN r
    ELSE LET t == order[i]
             j == FindConfig(machineConfigs, recommendations[t])
         IN IF j = 0
            THEN ChargeStrategies(r, machineConfigs, recommendations, order, i + 1)
            ELSE LET known == t \in DOMAIN r.strategyRegrets
                     r1 == IF known THEN r ELSE AddStrategyRegretDataset(r, t)
                     sum == (IF known THEN r.strategyRegrets[t] ELSE 0)
                            + Max(0, r.bestMachineEV
                                         - ExpectedValue(machineConfigs[j]))
                     r2 == [r1 EXCEPT !.strategyRegrets =
                               (t :> sum) @@ r1.strategyRegrets]
                 IN ChargeStrategies(r2, machineConfigs, recommendations,
                                     order, i + 1)

\* datasets.findIndex(ds => ds.label && ds.label.includes(text)); 0 if none
FindDataset(datasets, text) ==
    IF \E j \in 1..Len(datasets) : LabelIncludes(datasets[j].label, text)
    THEN CHOOSE j \in 1..Len(datasets) :
            /\ LabelIncludes(datasets[j].label, text)
            /\ \A k \in 1..(j - 1) : ~LabelIncludes(datasets[k].label, text)
    ELSE 0

\* updateRegretChart, the for-in over strategyRegrets from dataset i on: the
\* value pushed is strategyRegrets[strategyDatasetIndex], a property the
\* object keyed by strategy type does not have
RECURSIVE PushStrategyPoints(_, _)
PushStrategyPoints(datasets, i) ==
    IF i > Len(datasets) THEN datasets
    ELSE LET j == FindDataset(datasets, GetStrategyLabel(datasets[i].type))
         IN IF j = 0 THEN PushStrategyPoints(datasets, i + 1)
            ELSE PushStrategyPoints(
                    [datasets EXCEPT ![j].data = KeepLast(Append(@, Undefined))],
                    i + 1)

\* the fill and trim of one dataset to expectedLength
RECURSIVE FillToLength(_, _)
FillToLength(data, expectedLength) ==
    IF Len(data) < expectedLength
    THEN FillToLength(Append(data, IF data = << >> THEN 0 ELSE data[Len(data)]),
                      expectedLength)
    ELSE SubSeq(data, 1, expectedLength)

\* the strategy types of recommendations in the order of the for-in
RecommendationOrder(recommendations) ==
    SelectSeq(SidebarOrder, LAMBDA t : t \in DOMAIN recommendations)

\* mutant of UpdateRegretChart: the round's regret replaces the user's total
UpdateRegretChart_assigns(r, machineConfigs, machinePulled, recommendations) ==
    LET p == FindConfig(machineConfigs, machinePulled)
    IN IF r.bestMachineIndex = 0 - 1 \/ r.bestMachineEV = 0 \/ p = 0 THEN r
       ELSE [r EXCEPT !.userCumulativeRegret =
                Max(0, r.bestMachineEV - ExpectedValue(machineConfigs[p]))]

\* updateRegretChart
UpdateRegretChart(r, machineConfigs, machinePulled, recommendations) ==
    LET p == FindConfig(machineConfigs, machinePulled)
    IN IF r.bestMachineIndex = 0 - 1 \/ r.bestMachineEV = 0 \/ p = 0 THEN r
       ELSE LET r1 == [r EXCEPT !.userCumulativeRegret =
                          @ + Max(0, r.bestMachineEV
                                         - ExpectedValue(machineConfigs[p]))]
                r2 == ChargeStrategies(r1, machineConfigs, recommendations,
                                       RecommendationOrder(recommendations), 1)
                n == Min(r2.labels + 1, maxDataPoints)
                d1 == [r2.datasets EXCEPT ![1].data =
                          KeepLast(Append(@, r2.userCumulativeRegret))]
                d2 == PushStrategyPoints(d1, 2)
            IN [r2 EXCEPT !.labels = n,
                          !.datasets = [j \in 1..Len(d2) |->
                              [d2[j] EXCEPT !.data = FillToLength(@, n)]]]

----------------------------------------------------------------------------
\* The application

StratIdle ==
    /\ strat = [kind |-> "none"]
    /\ lastCall = "init"
    /\ lastSel = NoArm
    /\ calls = 0
    /\ alt = TRUE
    /\ ghost = <<>>
    /\ updates = 0

Init == StratIdle /\ AppStart

\* the configurations with the (distribution, parameters) of slots i and j
\* exchanged; ids stay where they are
SwapSlots(configs, i, j) ==
    [configs EXCEPT ![i] = [@ EXCEPT !.distribution = configs[j].distribution,
                                     !.parameters = configs[j].parameters],
                    ![j] = [@ EXCEPT !.distribution = configs[i].distribution,
                                     !.parameters = configs[i].parameters]]

\* the Fisher-Yates loop from slot i down: every outcome of the draws of j
RECURSIVE FisherYates(_, _)
FisherYates(configs, i) ==
    IF i <= 1 THEN {configs}
    ELSE UNION {FisherYates(SwapSlots(configs, i, j), i - 1) : j \in 1..i}

\* changesDetected: some slot differs in distribution or parameters
ChangesDetected(oldConfigs, shuffledConfigs) ==
    \E i \in 1..Len(oldConfigs) :
        \/ oldConfigs[i].distribution # shuffledConfigs[i].distribution
        \/ oldConfigs[i].parameters # shuffledConfigs[i].parameters

\* mutant of PermuteAndUpdateMachines: a shuffle is accepted unchecked
PermuteAndUpdateMachines_unchecked(configs) ==
    FisherYates(configs, Len(configs))

\* permuteAndUpdateMachines: the registries a completed call can leave in
\* currentMachineConfigs; a shuffle without a change is drawn again, so the
\* set is empty when no shuffle changes a slot (the call never returns)
PermuteAndUpdateMachines(configs) ==
    {c \in FisherYates(configs, Len(configs)) : ChangesDetected(configs, c)}

\* the active strategies a permutation notification is due to
HookBearers(strategies) == {t \in DOMAIN strategies : HasHook(strategies[t])}

\* generateSlotMachines: resetCharts, setOriginalMachineConfigs,
\* createSlotMachine for each arm, initializeChart, initializeRegretChart,
\* strategyManager.initialize up to its first await
GenerateFrom(registries, bound) ==
    /\ nCalls + pullsMade + forced < bound
    /\ \E reg \in registries :
          LET best == DetermineBestMachine(reg)
          IN /\ currentMachineConfigs' = reg
             /\ chartConfigs' = reg
             /\ machineData' = [a \in IdsOf(reg) |-> [pulls |-> 0, totalPayout |-> 0]]
             /\ chart' = [strategyPayouts |-> <<>>, bestPossibleTotalPayout |-> 0,
                          bestMachineIndex |-> best.index, bestMachineEV |-> best.ev]
             /\ regret' = InitializeRegretChart(best)
             /\ mgr' = InitializeBegin(mgr, reg)
             /\ tasks' = Append(tasks, InitializeTask(mgr, reg))
    /\ totalPulls' = 0
    /\ nCalls' = nCalls + 1
    /\ origin' = <<>>
    /\ roundsSinceConfig' = 0
    /\ owed' = {}
    /\ UNCHANGED <<round, pullsMade, hardModeEnabled, forced, permCount>>
    /\ UNCHANGED shuffles
    /\ UNCHANGED stratVars

GenerateSlotMachines == GenerateFrom(Registries, MaxEvents)

\* the sidebar's Apply: updateStrategyOptions for the selected types, then
\* MultiStrategyManager.updateSelectedStrategies(selectedTypes)
UpdateSelectedFrom(selections, bound) ==
    /\ nCalls + pullsMade + forced < bound
    /\ \E types \in selections, n \in SamplesEntered :
          LET m1 == IF "abtest" \in Range(types)
                    THEN [mgr EXCEPT !.strategyOptions.abtest.samplesPerMachine = n]
                    ELSE mgr
              m2 == [m1 EXCEPT !.selectedTypes = types]
          IN IF m2.machineConfigs # <<>>
             THEN /\ mgr' = InitializeBegin(m2, m2.machineConfigs)
                  /\ tasks' = Append(tasks, InitializeTask(m2, m2.machineConfigs))
                  /\ nCalls' = nCalls + 1
                  /\ origin' = <<>>
                  /\ roundsSinceConfig' = 0
                  /\ owed' = {}
             ELSE /\ mgr' = m2
                  /\ mgr' # mgr
                  /\ UNCHANGED <<tasks, nCalls, origin, roundsSinceConfig, owed>>
    /\ UNCHANGED <<currentMachineConfigs, chartConfigs, totalPulls, machineData,
                   chart, regret, round, pullsMade, hardModeEnabled, forced,
                   permCount>>
    /\ UNCHANGED shuffles
    /\ UNCHANGED stratVars

UpdateSelectedStrategies == UpdateSelectedFrom(Selections, MaxEvents)

\* initialize, resumed when the awaited createStrategy promise resolves:
\* this.strategies[type] = strategy, then the loop up to its next await
ResumeInitialize ==
    /\ \E id \in 1..Len(tasks) :
          /\ tasks[id].state = "awaiting"
          /\ LET t == tasks[id]
                 type == t.types[t.i]
                 strategy == CreateStrategy(type, t.machineConfigs, t.options)
                 j == NextAwait(t.types, t.i + 1)
             IN /\ mgr' = [mgr EXCEPT !.strategies = (type :> strategy) @@ @]
                /\ origin' = (type :> id) @@ origin
                /\ owed' = owed \ {type}
                /\ tasks' = [tasks EXCEPT ![id] =
                       IF j <= Len(t.types)
                       THEN [t EXCEPT !.i = j, !.built = @ + 1,
                                      !.options = OptionsOf(mgr, t.types[j])]
                       ELSE [state |-> "returned", built |-> t.built + 1]]
    /\ UNCHANGED <<currentMachineConfigs, chartConfigs, totalPulls, machineData,
                   nCalls, chart, regret, round, roundsSinceConfig, pullsMade,
                   hardModeEnabled, forced, permCount>>
    /\ UNCHANGED shuffles
    /\ UNCHANGED stratVars

\* the registries pullLever can resolve the round with: in hard mode the 5%
\* branch may have permuted currentMachineConfigs first
RegistriesAtPull ==
    {currentMachineConfigs}
        \cup (IF hardModeEnabled
              THEN PermuteAndUpdateMachines(currentMachineConfigs) ELSE {})

\* pullLever(machineId, distribution, parameters); every value of the LETs
\* of the source is bound once
PullLeverWithin(bound) ==
    /\ nCalls + pullsMade + forced < bound
    /\ \E configs \in RegistriesAtPull :
       \E i \in 1..Len(configs) :
          LET c == configs[i]
          IN \E payout \in Sample(c.distribution, c.parameters) :
             \E roundPayouts \in GenerateRoundPayouts(configs, c.id, payout) :
             \E chartPayouts \in GenerateConsistentRoundPayouts(
                                     chartConfigs, c.id, payout, totalPulls + 1) :
             \E rands \in RandsAt(mgr.strategies) :
             \E sim \in {SimulateStrategiesWithPayouts(mgr.strategies, roundPayouts,
                                                      rands[1])} :
             \E rec \in {GetRecommendations([t \in DOMAIN sim |-> sim[t].s],
                                            rands[2])} :
             \E recommendations \in {[t \in DOMAIN rec |-> rec[t].arm]} :
                   /\ currentMachineConfigs' = configs
                   /\ permCount' = IF configs # currentMachineConfigs
                                   THEN permCount + 1 ELSE permCount
                   /\ machineData' = [machineData EXCEPT ![c.id] =
                          [pulls |-> @.pulls + 1, totalPayout |-> @.totalPayout + payout]]
                   /\ mgr' = [mgr EXCEPT !.strategies = [t \in DOMAIN rec |-> rec[t].s]]
                   /\ chart' = UpdateChart(chart, chartPayouts, recommendations)
                   /\ regret' = UpdateRegretChart(regret, chartConfigs, c.id, recommendations)
                   /\ round' = [n |-> totalPulls + 1, machineId |-> c.id,
                                payout |-> payout,
                                roundPayouts |-> roundPayouts,
                                chartPayouts |-> chartPayouts,
                                chosen |-> [t \in DOMAIN sim |-> sim[t].arm],
                                recommendations |-> recommendations,
                                registry |-> configs,
                                chartRegistry |-> chartConfigs,
                                permuted |-> configs # currentMachineConfigs,
                                perms |-> IF configs # currentMachineConfigs
                                          THEN permCount + 1 ELSE permCount,
                                afterPermutation |->
                                    \/ configs # currentMachineConfigs
                                    \/ permCount > (IF round.n = 0 THEN 0
                                                    ELSE round.perms),
                                owed |-> owed \cup
                                    (IF configs # currentMachineConfigs
                                     THEN HookBearers(mgr.strategies) ELSE {})]
    /\ totalPulls' = totalPulls + 1
    /\ roundsSinceConfig' = roundsSinceConfig + 1
    /\ pullsMade' = pullsMade + 1
    /\ owed' = {}
    /\ UNCHANGED <<chartConfigs, tasks, nCalls, origin, hardModeEnabled, forced>>
    /\ UNCHANGED shuffles
    /\ UNCHANGED stratVars

PullLever == PullLeverWithin(MaxEvents)

\* the checked boxes after document.getElementById('strategy-' + type).checked
\* = true, the boxes checked before being those of the applied selection
CheckedWith(types, type) ==
    SelectSeq(SidebarOrder, LAMBDA t : t \in Range(types) \cup {type})

\* the hard-mode checkbox: toggleHardMode(this.checked); enabling reads the
\* registry back from the machines' stats panels, which show the current
\* distribution and parameters of slots 0..k-1, and, when neither ns-ucb
\* nor exp3r is selected, checks ns-ucb and applies the selection
ToggleHardMode ==
    /\ hardModeEnabled' = ~hardModeEnabled
    /\ currentMachineConfigs' =
          IF hardModeEnabled THEN currentMachineConfigs
          ELSE [i \in 1..Len(currentMachineConfigs) |->
                   Cfg(i - 1, currentMachineConfigs[i].distribution,
                       currentMachineConfigs[i].parameters)]
    /\ IF ~hardModeEnabled
          /\ ~\E i \in 1..Len(mgr.selectedTypes) :
                 mgr.selectedTypes[i] \in {"ns-ucb", "exp3r"}
       THEN LET m2 == [mgr EXCEPT
                          !.selectedTypes = CheckedWith(mgr.selectedTypes, "ns-ucb")]
            IN IF m2.machineConfigs # <<>>
               THEN /\ nCalls + pullsMade + forced < MaxHardEvents
                    /\ mgr' = InitializeBegin(m2, m2.machineConfigs)
                    /\ tasks' = Append(tasks, InitializeTask(m2, m2.machineConfigs))
                    /\ nCalls' = nCalls + 1
                    /\ origin' = <<>>
                    /\ roundsSinceConfig' = 0
                    /\ owed' = {}
               ELSE /\ mgr' = m2
                    /\ UNCHANGED <<tasks, nCalls, origin, roundsSinceConfig, owed>>
       ELSE UNCHANGED <<mgr, tasks, nCalls, origin, roundsSinceConfig, owed>>
    /\ UNCHANGED <<chartConfigs, totalPulls, machineData, chart, regret, round,
                   pullsMade, forced, permCount>>
    /\ UNCHANGED shuffles
    /\ UNCHANGED stratVars

\* the Test Permutation button (shown while hard mode is on): forcePermutation()
ForcePermutation ==
    /\ hardModeEnabled
    /\ nCalls + pullsMade + forced < MaxHardEvents
    /\ currentMachineConfigs # <<>>
    /\ currentMachineConfigs' \in PermuteAndUpdateMachines(currentMachineConfigs)
    /\ forced' = forced + 1
    /\ permCount' = permCount + 1
    /\ owed' = owed \cup HookBearers(mgr.strategies)
    /\ UNCHANGED <<chartConfigs, totalPulls, machineData, mgr, tasks, nCalls,
                   origin, chart, regret, round, roundsSinceConfig, pullsMade,
                   hardModeEnabled>>
    /\ UNCHANGED shuffles
    /\ UNCHANGED stratVars

Next ==
    \/ GenerateSlotMachines
    \/ UpdateSelectedStrategies
    \/ ResumeInitialize
    \/ PullLever

Spec == Init /\ [][Next]_vars

\* The application with hard mode and the permutation button in use
HardRegistries ==
    { << Cfg(0, "bernoulli", <<2>>), Cfg(1, "bernoulli", <<8>>) >>,
      << Cfg(0, "bernoulli", <<2>>), Cfg(1, "bernoulli", <<2>>),
         Cfg(2, "bernoulli", <<8>>) >> }

HardSelections == { <<"exp3r">> }

HardGenerate == GenerateFrom(HardRegistries, MaxHardEvents)

HardUpdateSelected == UpdateSelectedFrom(HardSelections, MaxHardEvents)

HardPullLever == PullLeverWithin(MaxHardEvents)

NextHard ==
    \/ HardGenerate
    \/ HardUpdateSelected
    \/ ResumeInitialize
    \/ ToggleHardMode
    \/ ForcePermutation
    \/ HardPullLever

SpecHard == Init /\ [][NextHard]_vars

\* The application with the configuration form filled in freely: one arm,
\* a uniform with min = max, a bernoulli with p = 1.5, the default
\* normal(0, 1) arms, a bernoulli with p = 1, arms of negative expected value
FormRegistries ==
    { << Cfg(0, "uniform", <<0, 2>>), Cfg(1, "bernoulli", <<8>>) >>,
      << Cfg(0, "bernoulli", <<5>>) >>,
      << Cfg(0, "uniform", <<2, 2>>), Cfg(1, "bernoulli", <<15>>) >>,
      << Cfg(0, "normal", <<0, 1>>), Cfg(1, "normal", <<0, 1>>) >>,
      << Cfg(0, "bernoulli", <<10>>), Cfg(1, "poisson", <<2>>) >>,
      << Cfg(0, "normal", <<0 - 2, 1>>), Cfg(1, "uniform", <<0 - 2, 0>>) >> }

FormGenerate == GenerateFrom(FormRegistries, MaxFormEvents)

FormPullLever == PullLeverWithin(MaxFormEvents)

NextForm ==
    \/ FormGenerate
    \/ ResumeInitialize
    \/ FormPullLever

SpecForm == Init /\ [][NextForm]_vars

\* The application with a permutation taken call by call:
\* permuteAndUpdateMachines shuffles once and, when no slot changed, returns
\* the result of calling itself.  No other handler runs while a call is in
\* progress.
MaxPermuteEvents == 3   \* user events in a run with permutations taken call by call
MaxShuffles == 3        \* shuffles made for one permutation request

PermuteRegistries ==
    { << Cfg(0, "normal", <<0, 1>>), Cfg(1, "normal", <<0, 1>>) >>,
      << Cfg(0, "normal", <<0, 1>>), Cfg(1, "normal", <<0, 1>>),
         Cfg(2, "normal", <<0, 1>>) >>,
      << Cfg(0, "bernoulli", <<2>>), Cfg(1, "bernoulli", <<8>>) >>,
      << Cfg(0, "bernoulli", <<2>>), Cfg(1, "bernoulli", <<2>>),
         Cfg(2, "bernoulli", <<8>>) >> }

\* one invocation of permuteAndUpdateMachines: the shuffle, the comparison
\* and either the return (registry replaced) or the call of itself
ShuffleOnce(changed) ==
    /\ \E shuffledConfigs \in FisherYates(currentMachineConfigs,
                                          Len(currentMachineConfigs)) :
          /\ ChangesDetected(currentMachineConfigs, shuffledConfigs) = changed
          /\ currentMachineConfigs' = IF changed THEN shuffledConfigs
                                      ELSE currentMachineConfigs
    /\ IF changed
       THEN /\ shuffles' = 0
            /\ permCount' = permCount + 1
            /\ owed' = owed \cup HookBearers(mgr.strategies)
       ELSE /\ shuffles < MaxShuffles
            /\ shuffles' = shuffles + 1
            /\ UNCHANGED <<permCount, owed>>
    /\ UNCHANGED <<chartConfigs, totalPulls, machineData, mgr, tasks, nCalls,
                   origin, chart, regret, round, roundsSinceConfig, pullsMade,
                   hardModeEnabled>>
    /\ UNCHANGED stratVars

PermuteGenerate == shuffles = 0 /\ GenerateFrom(PermuteRegistries, MaxPermuteEvents)

PermuteResume == shuffles = 0 /\ ResumeInitialize

PermuteToggle == shuffles = 0 /\ ToggleHardMode

\* forcePermutation(): the first invocation of permuteAndUpdateMachines
PermuteRequest ==
    /\ shuffles = 0
    /\ hardModeEnabled
    /\ nCalls + pullsMade + forced < MaxPermuteEvents
    /\ currentMachineConfigs # <<>>
    /\ forced' = forced + 1
    /\ \E changed \in BOOLEAN : ShuffleOnce(changed)

\* the invocation made by "return permuteAndUpdateMachines()" finds no
\* change either
ReshuffleAgain ==
    /\ shuffles > 0
    /\ ShuffleOnce(FALSE)
    /\ UNCHANGED forced

\* the invocation made by "return permuteAndUpdateMachines()" finds a change
\* and the request returns
ReshuffleDone ==
    /\ shuffles > 0
    /\ ShuffleOnce(TRUE)
    /\ UNCHANGED forced

NextPermute ==
    \/ PermuteGenerate
    \/ PermuteResume
    \/ PermuteToggle
    \/ PermuteRequest
    \/ ReshuffleAgain
    \/ ReshuffleDone

SpecPermute == Init /\ [][NextPermute]_vars

----------------------------------------------------------------------------
\* OptimalPolicyStrategy: backward induction over the per-arm (successes,
\* failures) counts.  The instance is kept in strat.  A JavaScript array is a
\* function from the 0-based index, a hole is an index outside its domain;
\* this.OPT[t][0] and this.values[t][0] are OPT[t] and values[t] (a function
\* from the serialized arm configuration); a value is the fraction [n, d].

MaxHorizon == 3         \* largest time horizon H handed to the constructor
MaxOptCalls == 6        \* calls and loop passes made on one instance

\* a[i]
At(a, i) == IF i \in DOMAIN a THEN a[i] ELSE Undefined

\* a[i] = v
SetAt(a, i, v) == (i :> v) @@ a

\* x++ on an array element
Increment(x) == IF x \in {Undefined, NaN} THEN NaN ELSE x + 1

\* Array(k).fill(v)
Filled(k, v) == [i \in 0..(k - 1) |-> v]

\* counts.reduce((a, b) => a + b, 0): holes are skipped, NaN absorbs
RECURSIVE SumCounts(_)
SumCounts(a) ==
    IF DOMAIN a = {} THEN 0
    ELSE LET i == CHOOSE i \in DOMAIN a : TRUE
             rest == SumCounts([j \in DOMAIN a \ {i} |-> a[j]])
         IN IF a[i] = NaN \/ rest = NaN THEN NaN ELSE a[i] + rest

Frac(n, d) == [n |-> n, d |-> d]
FracAdd(a, b) == Frac(a.n * b.d + b.n * a.d, a.d * b.d)
FracMul(a, b) == Frac(a.n * b.n, a.d * b.d)
FracGT(a, b) == a.n * b.d > b.n * a.d

\* new OptimalPolicyStrategy(k, H, priors)
OptimalConstruct(k, H) ==
    [kind |-> "optimal", k |-> k, H |-> H, machinePriors |-> << >>,
     counts |-> << >>, successes |-> << >>, failures |-> << >>,
     OPT |-> << >>, values |-> << >>, pc |-> "idle", t |-> 0, passes |-> 0]

\* serializeArmConfig: the "s,f;" fields of the key, in order
SerializeArmConfig(armConfig) ==
    [i \in 1..Len(armConfig) |-> <<armConfig[i].successes, armConfig[i].failures>>]

\* nextArmConfig
NextArmConfig(currentConfig, arm, success) ==
    [currentConfig EXCEPT ![arm + 1] =
        IF success THEN [@ EXCEPT !.successes = @ + 1]
        ELSE [@ EXCEPT !.failures = @ + 1]]

\* getCurrentArmConfig
GetCurrentArmConfig(s) ==
    [i \in 1..s.k |-> [successes |-> At(s.successes, i - 1),
                       failures |-> At(s.failures, i - 1)]]

\* generateConfigs(index, currentConfig, remainingPulls) of allArmConfigs, its
\* for loop from the given value of failures on: the configurations pushed
RECURSIVE GenerateConfigs(_, _, _, _, _)
GenerateConfigs(k, index, currentConfig, remainingPulls, failures) ==
    IF index = k - 1
    THEN << [currentConfig EXCEPT ![index + 1] =
                [successes |-> 0, failures |-> remainingPulls]] >>
    ELSE IF failures > remainingPulls THEN << >>
    ELSE GenerateConfigs(k, index + 1,
             [currentConfig EXCEPT ![index + 1] =
                 [successes |-> 0, failures |-> failures]],
             remainingPulls - failures, 0)
         \o GenerateConfigs(k, index, currentConfig, remainingPulls, failures + 1)

\* allArmConfigs(t)
AllArmConfigs(k, t) ==
    IF t >= 0
    THEN GenerateConfigs(k, 0, [i \in 1..k |-> [successes |-> 0, failures |-> 0]], t, 0)
    ELSE << >>

\* the prior of a configuration that has none
NoPrior == << >>

\* this.machinePriors.find(p => p.id === arm).prior; NoPrior when there is
\* nothing to read alpha and beta from
PriorOf(s, arm) ==
    LET found == {i \in 1..Len(s.machinePriors) : s.machinePriors[i].id = arm}
    IN IF found = {} THEN NoPrior
       ELSE s.machinePriors[CHOOSE i \in found : \A j \in found : i <= j].prior

\* this.values[t + 1][0][key], 0 when it is undefined
ValueOr0(s, t, key) ==
    IF t \in DOMAIN s.values /\ key \in DOMAIN s.values[t]
    THEN s.values[t][key] ELSE Frac(0, 1)

\* armValue of the arm in the configuration at time step t
ArmValue(s, t, armConfig, arm) ==
    LET successes == armConfig[arm + 1].successes
        failures == armConfig[arm + 1].failures
        prior == PriorOf(s, arm)
        alpha == prior[1]
        beta == prior[2]
        successProb == Frac(alpha + successes, alpha + beta + successes + failures)
        failureProb == Frac(beta + failures, alpha + beta + successes + failures)
        valueSuccess == ValueOr0(s, t + 1,
                            SerializeArmConfig(NextArmConfig(armConfig, arm, TRUE)))
        valueFailure == ValueOr0(s, t + 1,
                            SerializeArmConfig(NextArmConfig(armConfig, arm, FALSE)))
    IN FracAdd(FracMul(successProb, FracAdd(Frac(1, 1), valueSuccess)),
               FracMul(failureProb, valueFailure))

\* the for loop over the arms from the given arm on: [value, arm] of the best
RECURSIVE BestArmScan(_, _, _, _, _, _)
BestArmScan(s, t, armConfig, arm, bestValue, bestArm) ==
    IF arm >= s.k THEN [value |-> bestValue, arm |-> bestArm]
    ELSE LET armValue == ArmValue(s, t, armConfig, arm)
         IN IF FracGT(armValue, bestValue)
            THEN BestArmScan(s, t, armConfig, arm + 1, armValue, arm)
            ELSE BestArmScan(s, t, armConfig, arm + 1, bestValue, bestArm)

\* computeOptimalPolicy up to the first test of its backward loop: the two
\* tables are allocated, the values of t = H set to 0, t set to H - 1
ComputeOptimalPolicy(s) ==
    LET last == AllArmConfigs(s.k, s.H)
    IN [s EXCEPT
          !.values = [t \in 0..s.H |->
                        IF t = s.H
                        THEN [key \in {SerializeArmConfig(last[i]) : i \in 1..Len(last)}
                                 |-> Frac(0, 1)]
                        ELSE << >>],
          !.OPT = [t \in 0..s.H |-> << >>],
          !.t = s.H - 1,
          !.passes = 0,
          !.pc = IF s.H - 1 >= 0 THEN "loop" ELSE "idle"]

\* one pass of the backward loop, "for (let t = this.H - 1; t >= 0; t >= 0)":
\* the body for every configuration of allArmConfigs(t), then the update
\* expression t >= 0, which leaves t as it is.  A missing prior throws a
\* TypeError out of the call at the first configuration, before any write.
ComputePass(s) ==
    LET configs == AllArmConfigs(s.k, s.t)
        keys == {SerializeArmConfig(configs[i]) : i \in 1..Len(configs)}
        cfgOf(key) == configs[CHOOSE i \in 1..Len(configs) :
                                  SerializeArmConfig(configs[i]) = key]
        best(key) == BestArmScan(s, s.t, cfgOf(key), 0, Frac(0 - 1, 1), 0 - 1)
    IN IF \E arm \in 0..(s.k - 1) : PriorOf(s, arm) = NoPrior
       THEN [threw |-> TRUE, s |-> [s EXCEPT !.pc = "idle"]]
       ELSE [threw |-> FALSE,
             s |-> [s EXCEPT
                      !.values = [@ EXCEPT ![s.t] =
                                     [key \in keys |-> best(key).value] @@ @],
                      !.OPT = [@ EXCEPT ![s.t] =
                                  [key \in keys |-> best(key).arm] @@ @],
                      !.passes = @ + 1]]

\* initialize(machineConfigs) up to the first test of the backward loop
OptimalInitialize(s, machineConfigs) ==
    ComputeOptimalPolicy(
        [s EXCEPT !.machinePriors = [i \in 1..Len(machineConfigs) |->
                                        [id |-> machineConfigs[i].id,
                                         prior |-> machineConfigs[i].prior]],
                  !.k = Len(machineConfigs),
                  !.counts = Filled(Len(machineConfigs), 0),
                  !.successes = Filled(Len(machineConfigs), 0),
                  !.failures = Filled(Len(machineConfigs), 0),
                  !.H = IF s.H = 0 THEN 1000 ELSE s.H])

\* selectMachine(): this.OPT[t][0][configKey]; reading [0] of an undefined
\* this.OPT[t] throws a TypeError
OptimalSelectMachine(s) ==
    LET t == SumCounts(s.counts)
        configKey == SerializeArmConfig(GetCurrentArmConfig(s))
    IN IF t \notin DOMAIN s.OPT THEN [threw |-> TRUE, arm |-> NoArm]
       ELSE [threw |-> FALSE, arm |-> At(s.OPT[t], configKey)]

\* update(machineId, payout)
OptimalUpdate(s, machineId, payout) ==
    [s EXCEPT !.counts = SetAt(@, machineId, Increment(At(@, machineId))),
              !.successes = IF payout = 1
                            THEN SetAt(@, machineId, Increment(At(@, machineId)))
                            ELSE @,
              !.failures = IF payout = 1 THEN @
                           ELSE SetAt(@, machineId, Increment(At(@, machineId)))]

\* reset() up to the first test of the backward loop
OptimalReset(s) ==
    ComputeOptimalPolicy([s EXCEPT !.counts = Filled(s.k, 0),
                                   !.successes = Filled(s.k, 0),
                                   !.failures = Filled(s.k, 0)])

\* The configurations handed to initialize: ids 0..k-1, each with a Beta
\* prior or, as the entries of the arm registry are, without one
Priors == { <<1, 1>>, <<2, 1>>, NoPrior }

PriorConfigs ==
    { << [id |-> 0, prior |-> p] >> : p \in Priors }
        \cup { << [id |-> 0, prior |-> p], [id |-> 1, prior |-> q] >> :
                 p \in Priors, q \in Priors }

OptimalInit ==
    /\ \E k \in 1..2, H \in 1..MaxHorizon : strat = OptimalConstruct(k, H)
    /\ lastCall = "init"
    /\ lastSel = NoArm
    /\ calls = 0
    /\ alt = TRUE
    /\ ghost = << >>
    /\ updates = 0
    /\ AppStart

\* initialize(machineConfigs) is called
OptInitialize ==
    /\ calls < MaxOptCalls
    /\ strat.pc = "idle"
    /\ \E machineConfigs \in PriorConfigs :
          strat' = OptimalInitialize(strat, machineConfigs)
    /\ lastCall' = "initialize"
    /\ lastSel' = NoArm
    /\ calls' = calls + 1
    /\ UNCHANGED <<alt, ghost, updates>>
    /\ UNCHANGED appVars

\* the call in progress (initialize or reset) makes one more pass of the
\* backward loop; no other call runs before it returns
OptLoopPass ==
    /\ calls < MaxOptCalls
    /\ strat.pc = "loop"
    /\ LET r == ComputePass(strat)
       IN /\ strat' = r.s
          /\ lastCall' = IF r.threw THEN "threw" ELSE "pass"
    /\ calls' = calls + 1
    /\ UNCHANGED <<lastSel, alt, ghost, updates>>
    /\ UNCHANGED appVars

\* selectMachine() is called
OptSelect ==
    /\ calls < MaxOptCalls
    /\ strat.pc = "idle"
    /\ LET r == OptimalSelectMachine(strat)
       IN /\ lastSel' = r.arm
          /\ lastCall' = IF r.threw THEN "select threw" ELSE "select"
    /\ calls' = calls + 1
    /\ UNCHANGED <<strat, alt, ghost, updates>>
    /\ UNCHANGED appVars

\* update(machineId, payout) is called
OptUpdate ==
    /\ calls < MaxOptCalls
    /\ strat.pc = "idle"
    /\ \E machineId \in 0..(strat.k - 1), payout \in {0, 1} :
          strat' = OptimalUpdate(strat, machineId, payout)
    /\ lastCall' = "update"
    /\ calls' = calls + 1
    /\ UNCHANGED <<lastSel, alt, ghost, updates>>
    /\ UNCHANGED appVars

\* reset() is called
OptReset ==
    /\ calls < MaxOptCalls
    /\ strat.pc = "idle"
    /\ strat' = OptimalReset(strat)
    /\ lastCall' = "reset"
    /\ lastSel' = NoArm
    /\ calls' = calls + 1
    /\ UNCHANGED <<alt, ghost, updates>>
    /\ UNCHANGED appVars

OptimalNext == OptInitialize \/ OptLoopPass \/ OptSelect \/ OptUpdate \/ OptReset

SpecOptimal == OptimalInit /\ [][OptimalNext]_vars

----------------------------------------------------------------------------
\* Properties of a directly driven strategy instance

\* ghost mean of arm a is greater than that of arm b (both sampled)
GhostGT(a, b) == ghost[a].sum * ghost[b].cnt > ghost[b].sum * ghost[a].cnt

\* the arm with the highest mean over the exploration rounds, the first in
\* configuration order among equals, computed from the rewards delivered
GhostBest ==
    LET est == strat.machineEstimates
        i == CHOOSE i \in 1..Len(est) :
                /\ \A j \in 1..Len(est) : ~GhostGT(est[j].id, est[i].id)
                /\ \A j \in 1..(i - 1) : GhostGT(est[i].id, est[j].id)
    IN est[i].id

\* C2 (as claimed): selectMachine is a pure read for every variant: a
\* selectMachine call leaves the strategy state unchanged, and a second
\* selectMachine right after a first returns the same arm.
C2_SelectIsPureRead ==
    [][(lastCall' = "select" /\ calls' = calls + 1) =>
          /\ strat' = strat
          /\ (lastCall = "select" /\ strat.kind \in {"ucb", "abtest"}
                  => lastSel' = lastSel)]_vars

\* C4: explore-then-commit under strictly alternating select/update calls:
\* every selectMachine made once k * samplesPerArm updates have been
\* delivered returns the arm with the highest empirical mean of the
\* exploration rounds (first in configuration order on ties), whatever
\* rewards the later updates delivered.
C4_CommitsToBestForever ==
    (/\ strat.kind = "abtest"
     /\ alt
     /\ lastCall = "select"
     /\ updates >= strat.explorationPhaseLength)
        => lastSel = GhostBest

\* C4 witness: committed, then updated with a reward that makes another arm's
\* running mean strictly the highest, then asked again
C4_Witness ==
    /\ strat.kind = "abtest"
    /\ alt
    /\ lastCall = "select"
    /\ updates > strat.explorationPhaseLength
    /\ lastSel = GhostBest
    /\ \E i, j \in 1..Len(strat.machineEstimates) :
          /\ strat.machineEstimates[i].id = lastSel
          /\ MeanGT(strat.machineEstimates[j], strat.machineEstimates[i])

----------------------------------------------------------------------------
\* Properties of the application

AllSettled == \A id \in 1..Len(tasks) : tasks[id].state = "returned"

\* an instance that has learned nothing
Fresh(s) ==
    /\ s.totalPulls = 0
    /\ \A i \in 1..Len(s.machineEstimates) :
          s.machineEstimates[i].pulls = 0 /\ s.machineEstimates[i].totalPayout = 0

\* C1 (as claimed): in a round every arm has one reward value: the vector
\* the strategies are updated from and the vector the payout accounting
\* credits from (strategies and best-possible) hold the same value per arm.
C1_OneRewardPerArm ==
    round.n > 0 =>
        \A a \in DOMAIN round.roundPayouts :
            /\ a \in DOMAIN round.chartPayouts
            /\ round.chartPayouts[a] = round.roundPayouts[a]

\* C3 (as claimed): under the coordinator's round loop, when the exploration
\* budget k * n of explore-then-commit is exhausted every arm has received
\* exactly n updates.
C3_EqualExploration ==
    \A t \in DOMAIN mgr.strategies :
        LET s == mgr.strategies[t]
        IN (s.kind = "abtest" /\ s.totalPulls = s.explorationPhaseLength) =>
              \A i \in 1..Len(s.machineEstimates) :
                  s.machineEstimates[i].pulls = s.samplesPerMachine

\* C5 (as claimed): the arm a strategy is credited payout and charged regret
\* for in a round is the arm it selected and was updated with in that round,
\* and the reward credited is that arm's reward of the round.
C5_CreditedArmIsChosenArm ==
    round.n > 0 =>
        \A t \in DOMAIN round.recommendations :
            /\ round.recommendations[t] = round.chosen[t]
            /\ round.recommendations[t] \in DOMAIN round.chartPayouts
            /\ round.chartPayouts[round.recommendations[t]]
                   = round.roundPayouts[round.chosen[t]]

\* C6 (as claimed): once every pending construction has settled, the active
\* map holds exactly the constructible types of the latest selection, each
\* built by the latest initialize call from the latest arm configuration.
C6_OnlyLatestCallSurvives ==
    (nCalls > 0 /\ AllSettled) =>
        /\ \A t \in DOMAIN mgr.strategies :
              /\ t \in Range(mgr.selectedTypes)
              /\ origin[t] = nCalls
              /\ ArmIds(mgr.strategies[t]) = IdsOf(mgr.machineConfigs)
        /\ \A t \in Range(mgr.selectedTypes) :
              FactoryKnows(t) => t \in DOMAIN mgr.strategies

\* C7 (as claimed): every active strategy's totalPulls equals the number of
\* rounds completed since the last (re)configuration, also when the user
\* pulled while construction was pending.
C7_OneUpdatePerRound ==
    \A t \in DOMAIN mgr.strategies :
        mgr.strategies[t].totalPulls = roundsSinceConfig

\* C8: every strategy reachable from the coordinator's active map has had
\* its initialize(configs, options) completed, in any interleaving of pulls
\* with pending initialize calls; so has every strategy that took part in
\* the last round.
C8_OnlyInitializedStrategiesActive ==
    /\ \A t \in DOMAIN mgr.strategies : Initialized(mgr.strategies[t])
    /\ round.n > 0 =>
          \A t \in DOMAIN round.chosen :
              t \in DOMAIN mgr.strategies => round.chosen[t] # NoArm

\* C8 witness: a round was played while a construction was pending, and a
\* strategy already in the active map took part in it
C8_Witness ==
    /\ \E id \in 1..Len(tasks) : tasks[id].state = "awaiting"
    /\ roundsSinceConfig > 0
    /\ \E t \in DOMAIN mgr.strategies :
          /\ mgr.strategies[t].totalPulls > 0
          /\ t \in DOMAIN round.chosen

\* C9 (as claimed): when the selection changes with the arm set unchanged, a
\* strategy whose type is in the old and the new selection keeps its state.
C9_KeepsLearnedState ==
    [][(mgr'.selectedTypes # mgr.selectedTypes
            /\ mgr'.machineConfigs = mgr.machineConfigs) =>
          \A t \in (DOMAIN mgr.strategies \cap Range(mgr.selectedTypes))
                       \cap Range(mgr'.selectedTypes) :
              /\ t \in DOMAIN mgr'.strategies
              /\ mgr'.strategies[t] = mgr.strategies[t]]_vars

\* C9 (amended): a change of the selection, once arms are configured, empties
\* the active map at once - types that stay selected included - and every
\* instance a completed construction then puts into the map is fresh: no
\* learned state is carried over.
C9_ReplacedWholesale ==
    [][/\ (mgr'.selectedTypes # mgr.selectedTypes /\ mgr.machineConfigs # <<>>)
             => mgr'.strategies = <<>>
       /\ (tasks' # tasks /\ nCalls' = nCalls) =>
             \A t \in DOMAIN mgr'.strategies :
                 (t \notin DOMAIN mgr.strategies
                      \/ mgr'.strategies[t] # mgr.strategies[t])
                    => Fresh(mgr'.strategies[t])]_vars

\* C9 witness: ucb took part in a round since the arms were generated, the
\* selection was then changed, and the ucb now active is fresh
C9_Witness ==
    /\ nCalls >= 2
    /\ roundsSinceConfig = 0
    /\ "ucb" \in DOMAIN chart.strategyPayouts
    /\ "ucb" \in Range(mgr.selectedTypes)
    /\ "ucb" \in DOMAIN mgr.strategies
    /\ origin["ucb"] = nCalls
    /\ Fresh(mgr.strategies["ucb"])

\* C10 (as claimed): an initialize call for which the construction of every
\* selected type failed does not complete normally.
C10_EmptyActiveSetIsAnError ==
    \A id \in 1..Len(tasks) :
        tasks[id].state = "returned" => tasks[id].built > 0

----------------------------------------------------------------------------
\* Properties of the application with permutations

\* the (family, parameters) pair of a configuration
Pair(config) == <<config.distribution, config.parameters>>

\* the two registries hold the same multiset of (family, parameters) pairs
SamePairs(a, b) ==
    /\ Len(a) = Len(b)
    /\ \A i \in 1..Len(a) :
          Cardinality({j \in 1..Len(b) : Pair(b[j]) = Pair(a[i])})
              = Cardinality({j \in 1..Len(a) : Pair(a[j]) = Pair(a[i])})

\* C12: a completed permutation (in a hard-mode pull or by forcePermutation)
\* leaves every slot's arm id where it was, leaves the multiset of (family,
\* parameters) pairs of the registry unchanged, and changes the (family,
\* parameters) of at least one slot.
C12_PermutationShufflesConfigs ==
    [][permCount' = permCount + 1 =>
          /\ Len(currentMachineConfigs') = Len(currentMachineConfigs)
          /\ \A i \in 1..Len(currentMachineConfigs) :
                currentMachineConfigs'[i].id = currentMachineConfigs[i].id
          /\ SamePairs(currentMachineConfigs, currentMachineConfigs')
          /\ \E i \in 1..Len(currentMachineConfigs) :
                Pair(currentMachineConfigs'[i]) # Pair(currentMachineConfigs[i])]_vars

\* C12 witness: a registry with two identical arms, for which some shuffles
\* change nothing, has been permuted by the button and again inside a pull
C12_Witness ==
    /\ Len(currentMachineConfigs) = 3
    /\ forced >= 1
    /\ permCount >= 2
    /\ round.n >= 1
    /\ round.permuted

\* C13 (as claimed): the first round resolved after a permutation draws the
\* user's reward and every arm's round reward from the (family, parameters)
\* the registry now holds for that slot: the configuration each draw reads
\* is the post-permutation one.
C13_NoStaleReads ==
    (round.n >= 1 /\ round.afterPermutation) =>
        /\ Len(round.chartRegistry) = Len(round.registry)
        /\ \A i \in 1..Len(round.registry) :
              /\ round.chartRegistry[i].id = round.registry[i].id
              /\ Pair(round.chartRegistry[i]) = Pair(round.registry[i])
        /\ \A a \in DOMAIN round.roundPayouts :
              LET c == round.registry[FindConfig(round.registry, a)]
              IN round.roundPayouts[a] \in Sample(c.distribution, c.parameters)

\* the expected value the registry assigns to the slot of arm a
SlotEV(machineConfigs, a) ==
    ExpectedValue(machineConfigs[FindConfig(machineConfigs, a)])

\* C14 (as claimed): in the first round resolved after a permutation, the
\* regret added to the user's series and to every strategy's series is
\* max(0, bestArmEV - EV(arm)) with both expected values taken from the
\* current, permuted registry: bestArmEV its maximum, EV(arm) the value now
\* assigned to the slot of the arm charged.
C14_RegretFromPermutedRegistry ==
    [][(pullsMade' = pullsMade + 1 /\ round'.afterPermutation) =>
          LET reg == currentMachineConfigs'
              best == DetermineBestMachine(reg).ev
          IN /\ regret'.userCumulativeRegret =
                    regret.userCumulativeRegret
                        + Max(0, best - SlotEV(reg, round'.machineId))
             /\ \A t \in DOMAIN round'.recommendations :
                    regret'.strategyRegrets[t] =
                        (IF t \in DOMAIN regret.strategyRegrets
                         THEN regret.strategyRegrets[t] ELSE 0)
                        + Max(0, best - SlotEV(reg, round'.recommendations[t]))]_vars

\* C11 (as claimed): a strategy with the handlePermutation hook that was
\* active at a permutation has had the hook called by the time it is updated
\* for the next resolved round: after that round every arm of the instance
\* carries the mark the hook leaves (changeDetected, cleared by update only
\* more than 30 pulls later).
C11_HookCalledBeforeNextUpdate ==
    (round.n >= 1 /\ roundsSinceConfig >= 1) =>
        \A t \in round.owed :
            (t \in DOMAIN mgr.strategies /\ mgr.strategies[t].totalPulls >= 1) =>
                \A i \in 1..Len(mgr.strategies[t].machineEstimates) :
                    mgr.strategies[t].machineEstimates[i].changeDetected

----------------------------------------------------------------------------
\* Properties of the regret and payout series

\* C15: from one round to the next, with no reconfiguration in between, the
\* cumulative regret of the user and of every strategy tracked so far does
\* not decrease.
C15_RegretNeverDecreases ==
    [][pullsMade' = pullsMade + 1 =>
          /\ regret'.userCumulativeRegret >= regret.userCumulativeRegret
          /\ \A t \in DOMAIN regret.strategyRegrets :
                /\ t \in DOMAIN regret'.strategyRegrets
                /\ regret'.strategyRegrets[t] >= regret.strategyRegrets[t]]_vars

\* C15 witness: two rounds on one configuration after which the user and a
\* strategy both carry regret
C15_Witness ==
    /\ roundsSinceConfig >= 2
    /\ regret.userCumulativeRegret > 0
    /\ \E t \in DOMAIN regret.strategyRegrets : regret.strategyRegrets[t] > 0

\* C16 (as claimed): in every round the best-possible series is credited with
\* the round reward of the arm whose expected value is the maximum over the
\* current arm configurations.
C16_BestPossibleIsBestArm ==
    [][(pullsMade' = pullsMade + 1 /\ chart.bestMachineIndex # 0 - 1) =>
          LET best == DetermineBestMachine(currentMachineConfigs').index
          IN chart'.bestPossibleTotalPayout - chart.bestPossibleTotalPayout
                \in {round'.chartPayouts[best], round'.roundPayouts[best]}]_vars

\* C17 (as claimed): after a round, every strategy charged regret has one
\* series of its own, with one point per label of the chart, whose last
\* point is that strategy's cumulative regret.
C17_OwnSeriesGetsCumulativeRegret ==
    \A t \in DOMAIN regret.strategyRegrets :
        /\ Cardinality({j \in 1..Len(regret.datasets) :
                           regret.datasets[j].type = t}) = 1
        /\ \A j \in 1..Len(regret.datasets) :
              regret.datasets[j].type = t =>
                  /\ Len(regret.datasets[j].data) = regret.labels
                  /\ regret.datasets[j].data[regret.labels]
                         = regret.strategyRegrets[t]

----------------------------------------------------------------------------
\* Properties of the configuration form

\* the parameter domains of the families of the registries
ValidConfig(config) ==
    IF config.distribution = "uniform"
    THEN config.parameters[1] < config.parameters[2]
    ELSE IF config.distribution = "bernoulli"
         THEN config.parameters[1] >= 0 /\ config.parameters[1] <= PScale
         ELSE TRUE

ValidRegistry(machineConfigs) ==
    /\ Len(machineConfigs) >= 2
    /\ Len(machineConfigs) <= 8
    /\ \A i \in 1..Len(machineConfigs) : ValidConfig(machineConfigs[i])

\* C18 (as claimed): a configuration request with an arm count outside [2,8]
\* or an invalid parameter is rejected and changes nothing, so the registry,
\* empty at load, only ever holds a valid configuration.
C18_InvalidRequestsRejected ==
    currentMachineConfigs # <<>> => ValidRegistry(currentMachineConfigs)

----------------------------------------------------------------------------
\* Properties of the index policies

\* the arms of the instance that have never been pulled, as indices
Unexplored(s) ==
    {i \in 1..Len(s.machineEstimates) : s.machineEstimates[i].pulls = 0}

\* C19: whenever some arm has zero pulls, selectMachine of UCB1 and of
\* Non-Stationary UCB returns the first arm with zero pulls in configuration
\* order, whatever the means and pull counts of the explored arms.
C19_FirstUnexploredArmWins ==
    (strat.kind \in {"ucb", "ns-ucb"} /\ Unexplored(strat) # {}) =>
        LET first == CHOOSE i \in Unexplored(strat) :
                        \A j \in Unexplored(strat) : i <= j
        IN SelectMachine(strat).arm = strat.machineEstimates[first].id

\* C19 witness: Non-Stationary UCB has just selected the unexplored second
\* arm although the first arm, pulled six times, has a positive mean and a
\* detected change
C19_Witness ==
    /\ strat.kind = "ns-ucb"
    /\ lastCall = "select"
    /\ strat.machineEstimates[1].pulls >= 6
    /\ strat.machineEstimates[1].totalPayout > 0
    /\ strat.machineEstimates[1].changeDetected
    /\ strat.machineEstimates[2].pulls = 0
    /\ lastSel = strat.machineEstimates[2].id

----------------------------------------------------------------------------
\* Properties of the exponential-weight policies

\* the sum of the selection probabilities, in thousandths
ProbabilitySum(s) == SumSeq(s.probabilities)

\* C20 (as claimed): for EXP3 and EXP3-R, after initialize and after any
\* sequence of update, reset, self-detected arm reset and handlePermutation
\* calls, the total weight is a positive number and the selection
\* probabilities are numbers that sum to 1 (to the precision kept, a few
\* thousandths per arm).
C20_WeightsPositiveProbabilitiesSumToOne ==
    strat.kind \in {"exp3", "exp3r"} =>
        /\ TotalWeight(strat.weights) = "num"
        /\ \A i \in 1..strat.numMachines : strat.probabilities[i] # NaN
        /\ ProbabilitySum(strat) >= 1000 - 3 * strat.numMachines
        /\ ProbabilitySum(strat) <= 1000 + 3 * strat.numMachines

----------------------------------------------------------------------------
\* Properties of the optimal policy (OptimalPolicyStrategy)

\* C21: selectMachine never returns silently when the policy table has no
\* entry for the current (rounds elapsed, per-arm counts): a call that
\* returned has returned an arm of the table, never undefined
C21_MissingKeyIsAnError ==
    (strat.kind = "optimal" /\ lastCall = "select") => lastSel # Undefined

\* every assignment of successes and failures to k arms whose total is t
RECURSIVE CountStates(_, _)
CountStates(k, t) ==
    IF k = 0 THEN (IF t = 0 THEN { << >> } ELSE {})
    ELSE UNION { { Append(rest, [successes |-> sc, failures |-> fl]) :
                     rest \in CountStates(k - 1, t - sc - fl) } :
                 sc \in 0..t, fl \in 0..t }

\* arm (0-based) has a posterior mean at least that of every other arm
HighestPosteriorMean(s, armConfig, arm) ==
    \A other \in 0..(s.k - 1) :
        LET a == PriorOf(s, arm)
            b == PriorOf(s, other)
            x == armConfig[arm + 1]
            y == armConfig[other + 1]
        IN (a[1] + x.successes) * (b[1] + b[2] + y.successes + y.failures)
              >= (b[1] + y.successes) * (a[1] + a[2] + x.successes + x.failures)

\* C22: with two arms, Beta(1,1) priors and horizon 3, once backward
\* induction has made as many passes as there are time steps, the policy
\* table holds, for every state reachable at t = 0, 1, 2, an arm with the
\* highest posterior mean
C22_TableCoversReachableStates ==
    (/\ strat.kind = "optimal"
     /\ strat.k = 2
     /\ strat.H = 3
     /\ Len(strat.machinePriors) = 2
     /\ \A i \in 1..2 : strat.machinePriors[i].prior = <<1, 1>>
     /\ strat.passes >= strat.H)
        => \A t \in 0..2 :
              \A armConfig \in CountStates(2, t) :
                 LET key == SerializeArmConfig(armConfig)
                 IN /\ key \in DOMAIN strat.OPT[t]
                    /\ HighestPosteriorMean(strat, armConfig, strat.OPT[t][key])

\* C24: initialize terminates: a pass of the backward loop over time step t
\* leaves the loop at time step t - 1, so that each of H - 1 .. 0 is
\* processed once and the loop ends
C24_EachTimeStepProcessedOnce ==
    [][(strat.kind = "optimal" /\ strat.pc = "loop" /\ lastCall' = "pass")
          => strat'.t = strat.t - 1]_vars

----------------------------------------------------------------------------
\* Properties of the permutation request

\* C23: a permutation request always terminates, whatever the arm registry:
\* while a permuteAndUpdateMachines call is in progress, some shuffle it can
\* draw changes a slot and lets the call return
C23_PermutationCanReturn ==
    shuffles > 0 =>
        \E shuffledConfigs \in FisherYates(currentMachineConfigs,
                                           Len(currentMachineConfigs)) :
            ChangesDetected(currentMachineConfigs, shuffledConfigs)

----------------------------------------------------------------------------
\* Properties of the samplers and of the regret accountant

\* C25: a pull of a bernoulli arm is sampled by the bernoulli sampler (1 when
\* the uniform draw is below p): a bernoulli arm with p = 1 always pays 1
C25_BernoulliOfOneReturnsOne ==
    round.n > 0 =>
        LET c == round.registry[FindConfig(round.registry, round.machineId)]
        IN (c.distribution = "bernoulli" /\ c.parameters[1] = PScale)
              => round.payout = 1

\* C26: in every round processed by an initialized accountant the user's
\* cumulative regret grows by max(0, best expected value - expected value
\* of the pulled arm) and one point is appended to the user's series,
\* whatever the best expected value is
C26_EveryRoundChargesTheUser ==
    [][(totalPulls' = totalPulls + 1 /\ regret.datasets # << >>)
          => LET configs == currentMachineConfigs
                 best == MaxOf({ExpectedValue(configs[i]) : i \in 1..Len(configs)})
                 pulledEV == SlotEV(configs, round'.machineId)
             IN /\ regret'.userCumulativeRegret =
                       regret.userCumulativeRegret + Max(0, best - pulledEV)
                /\ Len(regret'.datasets[1].data) =
                       Min(Len(regret.datasets[1].data) + 1, maxDataPoints)]_vars

----------------------------------------------------------------------------
\* Properties of UCB1 with equal pull counts

\* every arm of the instance has the same positive pull count
EqualPositivePulls(s) ==
    \A i \in 1..Len(s.machineEstimates) :
        /\ s.machineEstimates[i].pulls > 0
        /\ s.machineEstimates[i].pulls = s.machineEstimates[1].pulls

\* the id of the first arm, in configuration order, whose empirical mean no
\* other arm exceeds
FirstHighestMean(s) ==
    LET est == s.machineEstimates
        top(i) == \A j \in 1..Len(est) :
                     est[j].totalPayout * est[i].pulls
                        <= est[i].totalPayout * est[j].pulls
        i == CHOOSE i \in 1..Len(est) : top(i) /\ \A j \in 1..(i - 1) : ~top(j)
    IN est[i].id

\* C29: when every arm has the same positive pull count, UCB1 selectMachine
\* returns the arm with the highest empirical mean, the first in
\* configuration order among arms of equal mean
C29_EqualPullsHighestMeanWins ==
    (strat.kind = "ucb" /\ lastCall = "select" /\ EqualPositivePulls(strat))
        => lastSel = FirstHighestMean(strat)

\* a selection made with equal positive pull counts that the means decided:
\* the arm returned is not the first of the configuration
C29_Witness ==
    /\ strat.kind = "ucb"
    /\ lastCall = "select"
    /\ EqualPositivePulls(strat)
    /\ lastSel = FirstHighestMean(strat)
    /\ lastSel # strat.machineEstimates[1].id

----------------------------------------------------------------------------
\* Properties of EXP3-R change handling

\* arm i (by position) is reset in the step: its reset time, its mark or its
\* emptied window say so
ResetInStep(i) ==
    \/ strat'.lastResets[i] # strat.lastResets[i]
    \/ strat'.machineEstimates[i].lastReset # strat.machineEstimates[i].lastReset
    \/ strat'.machineEstimates[i].changeDetected
          /\ ~strat.machineEstimates[i].changeDetected
    \/ strat'.rewardWindows[i] = << >> /\ strat.rewardWindows[i] # << >>

\* C27: self-detection resets an arm only in an update of that arm, when the
\* arm has at least 10 pulls and at least 10 rounds have elapsed since its
\* last reset (self-detected or by handlePermutation); the reset sets the
\* arm's weight to 1.0, empties its window and records the current round
C27_SelfResetOnlyWhenDue ==
    [][(strat.kind = "exp3r" /\ lastCall' = "update")
          => \A i \in 1..strat.numMachines :
                ResetInStep(i) =>
                   /\ strat'.machineEstimates[i].pulls
                         = strat.machineEstimates[i].pulls + 1
                   /\ strat'.machineEstimates[i].pulls >= 10
                   /\ strat'.totalPulls - strat.lastResets[i] >= 10
                   /\ strat'.totalPulls - strat.machineEstimates[i].lastReset >= 10
                   /\ strat'.weights[i] = WNum(0)
                   /\ strat'.rewardWindows[i] = << >>
                   /\ strat'.lastResets[i] = strat'.totalPulls
                   /\ strat'.machineEstimates[i].lastReset = strat'.totalPulls]_vars

\* an update has just reset its arm by self-detection, after an earlier
\* reset of that arm by a permutation notification
C27_Witness ==
    /\ strat.kind = "exp3r"
    /\ lastCall = "update"
    /\ permCount > 0
    /\ \E i \in 1..strat.numMachines :
          /\ strat.machineEstimates[i].pulls >= 10
          /\ strat.lastResets[i] = strat.totalPulls
          /\ strat.machineEstimates[i].changeDetected
          /\ strat.rewardWindows[i] = << >>
          /\ strat.weights[i] = WNum(0)

\* C28: an arm's changeDetected mark is cleared automatically about 30
\* rounds after the reset that set it: once more than 31 rounds have elapsed
\* since the arm's last reset the mark is off, whichever arms were pulled
C28_MarkClearedAfterThirtyRounds ==
    strat.kind = "exp3r" =>
        \A i \in 1..strat.numMachines :
            strat.totalPulls - strat.machineEstimates[i].lastReset > 31
                => ~strat.machineEstimates[i].changeDetected

\* C30: handlePermutation of EXP3-R, in whatever state it is called, sets
\* every weight to 1.0 and empties every window, so that all selection
\* probabilities are equal (1/k, in thousandths and up to rounding), sets
\* every last-reset time to the current totalPulls and marks every arm
\* changeDetected, and leaves totalPulls and every arm's pulls and
\* cumulative payout (hence its mean) as they were
C30_PermutationResetsEveryArm ==
    [][(lastCall' = "permutation" /\ strat.kind = "exp3r") =>
          /\ strat'.totalPulls = strat.totalPulls
          /\ strat'.numMachines = strat.numMachines
          /\ \A i \in 1..strat.numMachines :
                /\ strat'.weights[i] = WNum(0)
                /\ strat'.rewardWindows[i] = << >>
                /\ strat'.probabilities[i] = strat'.probabilities[1]
                /\ strat'.probabilities[i] * strat.numMachines <= 1000
                /\ strat'.probabilities[i] * strat.numMachines
                       > 1000 - 2 * strat.numMachines
                /\ strat'.lastResets[i] = strat.totalPulls
                /\ strat'.machineEstimates[i].lastReset = strat.totalPulls
                /\ strat'.machineEstimates[i].changeDetected
                /\ strat'.machineEstimates[i].pulls
                       = strat.machineEstimates[i].pulls
                /\ strat'.machineEstimates[i].totalPayout
                       = strat.machineEstimates[i].totalPayout
                /\ strat'.machineEstimates[i].id
                       = strat.machineEstimates[i].id]_vars

\* a permutation notification arrived after rewarded pulls
C30_Witness ==
    /\ lastCall = "permutation"
    /\ strat.kind = "exp3r"
    /\ strat.totalPulls >= 2
    /\ \E i \in 1..strat.numMachines :
          /\ strat.machineEstimates[i].totalPayout > 0
          /\ strat.lastResets[i] = strat.totalPulls

\* C31: update(i, r) of EXP3 adds one to totalPulls and changes the weight,
\* pulls and cumulative payout (hence the mean) of arm i only: every other
\* arm keeps its weight, pulls and cumulative payout, and the probabilities
\* of all arms are recomputed from the weights
C31_UpdateTouchesOneArm ==
    [][(lastCall' = "update" /\ strat.kind = "exp3") =>
          /\ strat'.totalPulls = strat.totalPulls + 1
          /\ strat'.numMachines = strat.numMachines
          /\ strat'.gamma = strat.gamma /\ strat'.eta = strat.eta
          /\ strat'.probabilities
                = Probabilities(strat'.weights, strat.gamma, strat.numMachines)
          /\ \E i \in 1..strat.numMachines :
                /\ strat'.machineEstimates[i].pulls
                      = strat.machineEstimates[i].pulls + 1
                /\ strat'.machineEstimates[i].id = strat.machineEstimates[i].id
                /\ \A j \in (1..strat.numMachines) \ {i} :
                      /\ strat'.weights[j] = strat.weights[j]
                      /\ strat'.machineEstimates[j]
                            = strat.machineEstimates[j]]_vars

\* an update of one arm arrived when another arm had been rewarded before
C31_Witness ==
    /\ lastCall = "update"
    /\ strat.kind = "exp3"
    /\ \E i, j \in 1..strat.numMachines :
          /\ i # j
          /\ strat.machineEstimates[i].pulls > 0
          /\ strat.machineEstimates[j].pulls > 0
          /\ strat.weights[i] # strat.weights[j]

\* the Page-Hinkley statistic S - m (hundredths) of arm i right after the
\* update that leads from the current state to the next one
PHAfterUpdate(i) ==
    LET m == strat.machineEstimates[i]
        payout == strat'.machineEstimates[i].totalPayout - m.totalPayout
        oldMean == IF m.pulls = 0 THEN 0 ELSE (m.totalPayout * 100) \div m.pulls
        S == Max(0, m.sumDeviations + (payout * 100 - oldMean - 5))
    IN S - Min(m.minSumDeviations, S)

\* the window of arm i after the push (and shift) of that update
WindowAfterUpdate(i) ==
    LET m == strat.machineEstimates[i]
        pushed == Append(m.recentPayouts,
                         strat'.machineEstimates[i].totalPayout - m.totalPayout)
    IN IF Len(pushed) > strat.windowSize THEN Tail(pushed) ELSE pushed

\* C32: an update of Non-Stationary UCB declares a change for the updated
\* arm exactly when that arm's pulls now exceed 5 and its Page-Hinkley
\* statistic S - m exceeds the threshold; a declared change sets
\* changeDetected, sets lastChangePoint to the arm's pulls, resets S and m
\* to 0 and keeps the window; the detection state of the other arms is
\* unchanged
C32_ChangeDeclaredExactlyWhenDue ==
    [][(lastCall' = "update" /\ strat.kind = "ns-ucb") =>
          \E i \in 1..Len(strat.machineEstimates) :
              LET m == strat.machineEstimates[i]
                  u == strat'.machineEstimates[i]
                  due == u.pulls > 5
                         /\ PHAfterUpdate(i) > strat.changeDetectionThreshold * 100
              IN /\ u.pulls = m.pulls + 1
                 /\ u.recentPayouts = WindowAfterUpdate(i)
                 /\ due => /\ u.changeDetected
                           /\ u.lastChangePoint = u.pulls
                           /\ u.sumDeviations = 0
                           /\ u.minSumDeviations = 0
                 /\ ~due => /\ u.changeDetected = m.changeDetected
                            /\ u.lastChangePoint = m.lastChangePoint
                 /\ \A j \in (1..Len(strat.machineEstimates)) \ {i} :
                       strat'.machineEstimates[j] = strat.machineEstimates[j]]_vars

\* a change has just been declared at the sixth pull of an arm, its window kept
C32_Witness ==
    /\ lastCall = "update"
    /\ strat.kind = "ns-ucb"
    /\ \E i \in 1..Len(strat.machineEstimates) :
          /\ strat.machineEstimates[i].changeDetected
          /\ strat.machineEstimates[i].lastChangePoint
                = strat.machineEstimates[i].pulls
          /\ strat.machineEstimates[i].pulls = 6
          /\ strat.machineEstimates[i].recentPayouts # << >>

\* C37: in Non-Stationary UCB a set changeDetected stays set through every
\* later update and selectMachine (only reset clears it), lastChangePoint
\* never exceeds the arm's pulls, and such an arm is scored with exploration
\* coefficient 3 over effectivePulls = max(1, pulls - lastChangePoint)
C37_ChangeMarkIsSticky ==
    [][(strat.kind = "ns-ucb" /\ lastCall' \in {"update", "select"}) =>
          \A i \in 1..Len(strat.machineEstimates) :
              LET m == strat.machineEstimates[i]
                  u == strat'.machineEstimates[i]
              IN /\ m.changeDetected => u.changeDetected
                 /\ u.lastChangePoint <= u.pulls
                 /\ u.changeDetected =>
                        NSUCBIndex(u, strat'.totalPulls)
                          = NSUCBEffectiveMean(u)
                            + ISqrt((3 * LnMilli[strat'.totalPulls] * 10)
                                    \div Max(1, u.pulls - u.lastChangePoint))]_vars

\* an arm marked in an earlier update has been pulled again
C37_Witness ==
    /\ strat.kind = "ns-ucb"
    /\ lastCall = "update"
    /\ strat.totalPulls >= 2
    /\ \E i \in 1..Len(strat.machineEstimates) :
          /\ strat.machineEstimates[i].changeDetected
          /\ strat.machineEstimates[i].pulls
                > strat.machineEstimates[i].lastChangePoint

\* C38: in Non-Stationary UCB, for every arm and after any sequence of
\* updates, the cumulative deviation S is non-negative and the running
\* minimum m is exactly 0, so that the Page-Hinkley statistic S - m is S
C38_RunningMinimumIsZero ==
    strat.kind = "ns-ucb" =>
        \A i \in 1..Len(strat.machineEstimates) :
            /\ strat.machineEstimates[i].sumDeviations >= 0
            /\ strat.machineEstimates[i].minSumDeviations = 0

\* a payout below the arm's mean has pulled the deviation back to the clamp
C38_Witness ==
    /\ strat.kind = "ns-ucb"
    /\ lastCall = "update"
    /\ \E i \in 1..Len(strat.machineEstimates) :
          /\ strat.machineEstimates[i].recentPayouts = <<2, 0>>
          /\ strat.machineEstimates[i].pulls = 2
          /\ strat.machineEstimates[i].sumDeviations = 0
          /\ \E j \in 1..Len(strat.machineEstimates) :
                strat.machineEstimates[j].sumDeviations > 0

\* the states one strategy can be in after a round with the given payouts,
\* computed from its own state alone: selectMachine and update in the
\* simulation, selectMachine again for the recommendation
OwnRound(s, roundPayouts) ==
    {SelectMachineAt(SimulateOne(s, roundPayouts, r1).s, r2).s :
        r1 \in Rands \cup {0}, r2 \in Rands \cup {0}}

\* C33: in a round every active strategy moves to a state determined by its
\* own state and the round's payouts, whatever the other active strategies
\* are and do; the round, and the initialize of a strategy, leave the arm
\* registries as they were; an initialize installs one strategy and leaves
\* the other active ones unchanged
C33_StrategiesAreIsolated ==
    [][/\ pullsMade' = pullsMade + 1 =>
             /\ DOMAIN mgr'.strategies = DOMAIN mgr.strategies
             /\ \A t \in DOMAIN mgr.strategies :
                   mgr'.strategies[t]
                      \in OwnRound(mgr.strategies[t], round'.roundPayouts)
             /\ mgr'.machineConfigs = mgr.machineConfigs
             /\ chartConfigs' = chartConfigs
             /\ currentMachineConfigs' = round'.registry
       /\ (nCalls' = nCalls /\ tasks' # tasks) =>
             /\ mgr'.machineConfigs = mgr.machineConfigs
             /\ chartConfigs' = chartConfigs
             /\ currentMachineConfigs' = currentMachineConfigs
             /\ \E type \in DOMAIN mgr'.strategies :
                   \A t \in DOMAIN mgr.strategies \ {type} :
                       /\ t \in DOMAIN mgr'.strategies
                       /\ mgr'.strategies[t] = mgr.strategies[t]]_vars

\* a round in which two active strategies were updated with different arms
C33_Witness ==
    /\ round.n > 0
    /\ \E t, u \in DOMAIN mgr.strategies :
          /\ t # u
          /\ t \in DOMAIN round.chosen /\ u \in DOMAIN round.chosen
          /\ round.chosen[t] # round.chosen[u]
          /\ mgr.strategies[t].totalPulls > 0
          /\ mgr.strategies[u].totalPulls > 0

\* C36: no per-arm reward window ever holds more than windowSize rewards,
\* after any sequence of update, self-detected reset and handlePermutation
\* calls: recentPayouts of Non-Stationary UCB, and rewardWindows and
\* recentPayouts of EXP3-R, which hold the same sequence as each other
C36_WindowsAreBounded ==
    /\ strat.kind = "ns-ucb" =>
          \A i \in 1..Len(strat.machineEstimates) :
              Len(strat.machineEstimates[i].recentPayouts) <= strat.windowSize
    /\ strat.kind = "exp3r" =>
          \A i \in 1..strat.numMachines :
              /\ Len(strat.rewardWindows[i]) <= strat.windowSize
              /\ Len(strat.machineEstimates[i].recentPayouts) <= strat.windowSize
              /\ strat.machineEstimates[i].recentPayouts = strat.rewardWindows[i]

\* C39: the arm selectMachine returns to the coordinator is always an arm
\* of the configured registry, so that in every round each active strategy's
\* chosen arm has a reward in the round vector
C39_RecommendedArmHasReward ==
    round.n > 0 =>
        \A t \in DOMAIN round.chosen :
            /\ round.chosen[t] \in IdsOf(round.registry)
            /\ round.chosen[t] \in DOMAIN round.roundPayouts

\* sum of the per-arm pulls
RECURSIVE SumOfPulls(_, _)
SumOfPulls(est, i) ==
    IF i > Len(est) THEN 0 ELSE est[i].pulls + SumOfPulls(est, i + 1)

\* C35: for every variant, totalPulls equals the sum of the per-arm pulls
\* after any sequence of update calls, those naming an arm id that is not
\* configured included (they leave the state unchanged)
C35_TotalPullsIsSumOfPulls ==
    strat.totalPulls = SumOfPulls(strat.machineEstimates, 1)

\* C34: for every variant, reset() after any sequence of selectMachine,
\* update and handlePermutation calls leaves the instance in the state
\* initialize gave it for the same arm configs and options, and a second
\* reset() changes nothing
C34_ResetRestoresInitialState ==
    [][lastCall' = "reset" =>
          /\ \E reg \in Registries :
                /\ IdsOf(reg) = ArmIds(strat)
                /\ strat' \in LifeStarts(reg)
          /\ strat'.kind = strat.kind
          /\ Reset(strat') = strat']_vars

\* reset() was called on an instance that had taken other calls before
C34_Witness ==
    /\ lastCall = "reset"
    /\ calls >= 4
    /\ strat.kind \in {"ucb", "ns-ucb", "abtest", "exp3", "exp3r"}
    /\ strat.totalPulls = 0

====
